---------------------------- MODULE Spec2Model ----------------------------
(***************************************************************************)
(* A model of quickSilver/app.py: the field cleaner (DataCleaner:          *)
(* clean_text, clean_url, standardize_phone, validate_email), the intent   *)
(* classifier and pattern extractor (IntelligentElementMatcher), the       *)
(* category extractors of WebScraper with scrape_full, which dispatches    *)
(* them, and the table normaliser (create_clean_csv_data).                 *)
(*                                                                         *)
(* Text is modelled by TLA+ strings over a small alphabet.  Two characters *)
(* that cannot be written in a TLA+ string are stood for by printable      *)
(* ones: NUL stands for U+0000 (category Cc, not whitespace) and NBSP for  *)
(* U+00A0 (category Zs, NFKD-decomposed to U+0020).                        *)
(***************************************************************************)
EXTENDS Integers, Sequences, FiniteSets, TLC

VARIABLES
    pc,             \* the step the modelled call sequence has reached
    text,           \* clean_text: the argument
    cleaned,        \* clean_text(text)
    recleaned,      \* clean_text(clean_text(text))
    user_query,     \* match_intent: the token list preprocess_query yields
    scores,         \* match_intent: the local dict scores
    matched_types,  \* match_intent: the returned list
    soup,           \* WebScraper.soup: the parsed document
    all_tables,     \* the list _extract_all_tables returns
    forms,          \* the list _extract_all_forms returns
    data_frames,    \* the dict create_clean_csv_data returns
    phone,          \* standardize_phone: the argument
    standardized,   \* standardize_phone(phone)
    selected_features, \* scrape_full: the argument, as the set of its entries
    results,        \* the dict scrape_full returns
    previous,       \* the dict the scrape_full call before the last returned
    errors,         \* WebScraper.errors
    extracted,      \* what the last call of one extractor returned
    given_url,      \* clean_url: the argument url
    given_base,     \* clean_url: the argument base_url
    cleaned_url     \* clean_url(url, base_url)

vars == <<pc, text, cleaned, recleaned, user_query, scores, matched_types,
          soup, all_tables, forms, data_frames, phone, standardized,
          selected_features, results, previous, errors, extracted,
          given_url, given_base, cleaned_url>>

textVars == <<text, cleaned, recleaned>>
intentVars == <<user_query, scores, matched_types>>
docVars == <<soup, all_tables, forms, data_frames>>
phoneVars == <<phone, standardized>>
urlVars == <<given_url, given_base, cleaned_url>>
scrapeVars == <<selected_features, results, previous, errors, extracted>>

(***************************************************************************)
(* Bounds of the model.                                                    *)
(***************************************************************************)
MaxTextLen == 5
MaxTokens == 2
MaxItems == 3
MaxNodes == 3
MaxTables == 2
MaxForms == 2

(***************************************************************************)
(* Generic helpers.                                                        *)
(***************************************************************************)
Range(s) == {s[i] : i \in 1..Len(s)}

RECURSIVE SeqsUpTo(_, _)
SeqsUpTo(S, n) ==
    IF n = 0 THEN {<<>>}
    ELSE LET shorter == SeqsUpTo(S, n - 1)
         IN shorter \cup {Append(s, x) : s \in {t \in shorter : Len(t) = n - 1}, x \in S}

RECURSIVE StringsUpTo(_, _)
StringsUpTo(A, n) ==
    IF n = 0 THEN {""}
    ELSE LET shorter == StringsUpTo(A, n - 1)
         IN shorter \cup {s \o c : s \in {t \in shorter : Len(t) = n - 1}, c \in A}

CharAt(s, i) == SubSeq(s, i, i)

\* the value of an attribute the element does not have
Absent == "(absent)"

\* WebScraper.base_url, as fetch_page sets it for the url of the model
BaseUrl == "http://x"

\* The parsed document: its elements by kind, each list in document order.
\* parsed is FALSE while WebScraper.soup is None (no page fetched).  blocks
\* are the span, div, p, strong and b elements; the text of the page
\* (soup.get_text()) is the text of the blocks, one per line.
EmptyDoc ==
    [parsed |-> TRUE, title |-> Absent, metas |-> <<>>, headings |-> <<>>, blocks |-> <<>>,
     images |-> <<>>, links |-> <<>>, videos |-> <<>>, iframes |-> <<>>,
     tables |-> <<>>, forms |-> <<>>]

(***************************************************************************)
(* DataCleaner.clean_text                                                  *)
(***************************************************************************)
NUL == "^"
NBSP == "~"
Alphabet == {"a", " ", "\t", NUL, NBSP}

\* str.split() separators: Python's whitespace
IsSpace(c) == c \in {" ", "\t", "\n", "\r", NBSP}

\* unicodedata.category(char)[0] == 'C'
IsControl(c) == c \in {NUL, "\t", "\n", "\r"}

\* unicodedata.normalize('NFKD', .) of one character
NFKDChar(c) == IF c = NBSP THEN " " ELSE c

\* (a string is worked on by halves, which keeps the evaluation shallow)
RECURSIVE NormalizeNFKD(_)
NormalizeNFKD(s) ==
    IF Len(s) = 0 THEN ""
    ELSE IF Len(s) = 1 THEN NFKDChar(s)
    ELSE NormalizeNFKD(SubSeq(s, 1, Len(s) \div 2))
             \o NormalizeNFKD(SubSeq(s, Len(s) \div 2 + 1, Len(s)))

\* the positions where a maximal run of non-whitespace characters starts
WordStarts(s) ==
    {i \in 1..Len(s) : ~IsSpace(CharAt(s, i)) /\ (i = 1 \/ IsSpace(CharAt(s, i - 1)))}

\* the position after the run of non-whitespace characters that holds i
RECURSIVE WordEnd(_, _)
WordEnd(s, i) == IF i > Len(s) \/ IsSpace(CharAt(s, i)) THEN i ELSE WordEnd(s, i + 1)

\* text.split(): the maximal runs of non-whitespace characters, in order
WordFrom(s, start) == SubSeq(s, start, WordEnd(s, start) - 1)

\* the k-th smallest element of a set of numbers
Nth(S, k) == CHOOSE i \in S : Cardinality({j \in S : j < i}) = k - 1

WordsFrom(s, starts) == [k \in 1..Cardinality(starts) |-> WordFrom(s, Nth(starts, k))]

Split(s) == WordsFrom(s, WordStarts(s))

\* sep.join(words)
RECURSIVE Join(_, _)
Join(sep, words) ==
    IF words = <<>> THEN ""
    ELSE IF Len(words) = 1 THEN words[1]
    ELSE words[1] \o sep \o Join(sep, Tail(words))

\* ''.join(char for char in text if category(char)[0] != 'C' or char in '\n\r\t')
RECURSIVE RemoveControl(_)
RemoveControl(s) ==
    IF Len(s) = 0 THEN ""
    ELSE IF Len(s) = 1 THEN (IF ~IsControl(s) \/ s \in {"\n", "\r", "\t"} THEN s ELSE "")
    ELSE RemoveControl(SubSeq(s, 1, Len(s) \div 2))
             \o RemoveControl(SubSeq(s, Len(s) \div 2 + 1, Len(s)))

\* str.strip()
RECURSIVE LStrip(_)
LStrip(s) ==
    IF s = "" THEN ""
    ELSE IF IsSpace(CharAt(s, 1)) THEN LStrip(SubSeq(s, 2, Len(s))) ELSE s

RECURSIVE RStrip(_)
RStrip(s) ==
    IF s = "" THEN ""
    ELSE IF IsSpace(CharAt(s, Len(s))) THEN RStrip(SubSeq(s, 1, Len(s) - 1)) ELSE s

Strip(s) == LStrip(RStrip(s))

clean_text(s) ==
    IF s = "" THEN ""
    ELSE Strip(RemoveControl(Join(" ", Split(NormalizeNFKD(s)))))

(***************************************************************************)
(* The clean_text specification: one string, cleaned once and then again.  *)
(***************************************************************************)
IntentIdle == user_query = <<>> /\ scores = <<>> /\ matched_types = <<>>
TextIdle == text = "" /\ cleaned = "" /\ recleaned = ""
DocIdle == soup = EmptyDoc /\ all_tables = <<>> /\ forms = <<>> /\ data_frames = [n \in {} |-> <<>>]
PhoneIdle == phone = "" /\ standardized = ""
UrlIdle == given_url = "" /\ given_base = "" /\ cleaned_url = ""
ScrapeIdle ==
    /\ selected_features = {}
    /\ results = [n \in {} |-> <<>>]
    /\ previous = [n \in {} |-> <<>>]
    /\ errors = <<>>
    /\ extracted = <<>>

InitText ==
    /\ pc = "text"
    /\ text \in StringsUpTo(Alphabet, MaxTextLen)
    /\ cleaned = ""
    /\ recleaned = ""
    /\ IntentIdle
    /\ DocIdle
    /\ PhoneIdle
    /\ UrlIdle
    /\ ScrapeIdle

CleanOnce ==
    /\ pc = "text"
    /\ cleaned' = clean_text(text)
    /\ pc' = "cleaned"
    /\ UNCHANGED <<text, recleaned, intentVars, docVars, phoneVars, scrapeVars, urlVars>>

CleanAgain ==
    /\ pc = "cleaned"
    /\ recleaned' = clean_text(cleaned)
    /\ pc' = "recleaned"
    /\ UNCHANGED <<text, cleaned, intentVars, docVars, phoneVars, scrapeVars, urlVars>>

NextText == CleanOnce \/ CleanAgain

SpecText == InitText /\ [][NextText]_vars

\* C4: clean_text is idempotent: cleaning a cleaned string changes nothing.
CleanTextIdempotent == pc = "recleaned" => recleaned = cleaned

\* A control character between two whitespace characters has been cleaned twice.
CleanTextControlCase ==
    /\ pc = "recleaned"
    /\ \E i \in 2..(Len(text) - 1) :
          /\ CharAt(text, i) = NUL
          /\ IsSpace(CharAt(text, i - 1))
          /\ IsSpace(CharAt(text, i + 1))
    /\ recleaned # cleaned

(***************************************************************************)
(* IntelligentElementMatcher.match_intent                                  *)
(***************************************************************************)
\* the keys of self.element_keywords, in insertion order
ElementTypes ==
    <<"title", "description", "image", "link", "table", "contact", "price",
      "date", "product", "author", "category", "social", "video", "form", "meta">>

element_keywords ==
    [title |-> <<"title", "heading", "header", "h1", "h2", "h3", "headline", "caption", "name">>,
     description |-> <<"description", "desc", "summary", "content", "text", "paragraph", "detail", "about", "info">>,
     image |-> <<"image", "img", "picture", "photo", "thumbnail", "graphic", "visual", "media">>,
     link |-> <<"link", "url", "href", "anchor", "hyperlink", "reference">>,
     table |-> <<"table", "grid", "data", "list", "spreadsheet", "chart">>,
     contact |-> <<"email", "phone", "contact", "address", "tel", "telephone", "mail">>,
     price |-> <<"price", "cost", "amount", "value", "$", "fee", "rate", "charge", "payment">>,
     date |-> <<"date", "time", "published", "updated", "timestamp", "when", "schedule">>,
     product |-> <<"product", "item", "goods", "merchandise", "article">>,
     author |-> <<"author", "writer", "by", "creator", "publisher">>,
     category |-> <<"category", "tag", "topic", "section", "type", "class">>,
     social |-> <<"social", "twitter", "facebook", "instagram", "linkedin", "share">>,
     video |-> <<"video", "youtube", "vimeo", "media", "embed">>,
     form |-> <<"form", "input", "search", "subscribe", "newsletter">>,
     meta |-> <<"meta", "metadata", "seo", "keywords", "tags">>]

\* Python's `a in b` on strings
IsSubstring(a, b) ==
    \E i \in 1..(Len(b) - Len(a) + 1) : SubSeq(b, i, i + Len(a) - 1) = a

\* token in keyword or keyword in token
KeywordMatch(token, keyword) == IsSubstring(token, keyword) \/ IsSubstring(keyword, token)

\* the inner loops of match_intent: score += 1 for every (token, keyword) pair that matches
Score(element_type, tokens) ==
    Cardinality({p \in (1..Len(tokens)) \X (1..Len(element_keywords[element_type])) :
                    KeywordMatch(tokens[p[1]], element_keywords[element_type][p[2]])})

\* scores: only the element types with score > 0 get a key
ScoresOf(tokens) ==
    [e \in {t \in Range(ElementTypes) : Score(t, tokens) > 0} |-> Score(e, tokens)]

MaxScore(sc) == CHOOSE m \in {sc[e] : e \in DOMAIN sc} : \A e \in DOMAIN sc : sc[e] <= m

\* v >= max_score * 0.7, on integers (the double product never exceeds 7*max/10,
\* and is below an integer v only if 7*max/10 is)
ReachesThresholdMut(v, max_score) == v >= max_score

ReachesThreshold(v, max_score) == 10 * v >= 7 * max_score

\* [k for k, v in scores.items() if v >= max_score * 0.7]
MatchedOf(sc) ==
    IF DOMAIN sc = {} THEN <<>>
    ELSE LET Keep(k) == k \in DOMAIN sc /\ ReachesThreshold(sc[k], MaxScore(sc))
         IN SelectSeq(ElementTypes, Keep)

match_intent(tokens) ==
    IF tokens = <<>> THEN <<"all">>
    ELSE LET matched == MatchedOf(ScoresOf(tokens))
         IN IF matched # <<>> THEN matched ELSE <<"all">>

(***************************************************************************)
(* The match_intent specification: one token list, classified.             *)
(***************************************************************************)
Vocabulary == {"price", "cost", "meta", "media", "tag", "h", "e", "titles", "zzz"}

InitIntent ==
    /\ pc = "query"
    /\ user_query \in SeqsUpTo(Vocabulary, MaxTokens)
    /\ scores = <<>>
    /\ matched_types = <<>>
    /\ TextIdle
    /\ DocIdle
    /\ PhoneIdle
    /\ UrlIdle
    /\ ScrapeIdle

MatchIntent ==
    /\ pc = "query"
    /\ scores' = (IF user_query = <<>> THEN <<>> ELSE ScoresOf(user_query))
    /\ matched_types' = match_intent(user_query)
    /\ pc' = "matched"
    /\ UNCHANGED <<user_query, textVars, docVars, phoneVars, scrapeVars, urlVars>>

NextIntent == MatchIntent

SpecIntent == InitIntent /\ [][NextIntent]_vars

Positive(sc) == {e \in DOMAIN sc : sc[e] > 0}

\* C2: match_intent returns exactly the element types whose score is above zero
\* and at least 70% of the maximum score; it returns the wildcard 'all' exactly
\* when no element type scores above zero (so for an empty token list); for the
\* tokens price, cost the result contains price.
MatchIntentSelection ==
    pc = "matched" =>
        /\ Positive(scores) # {} =>
              Range(matched_types) =
                  {e \in Positive(scores) :
                      \A o \in Positive(scores) : 10 * scores[e] >= 7 * scores[o]}
        /\ ("all" \in Range(matched_types)) <=> (Positive(scores) = {})
        /\ Positive(scores) = {} => matched_types = <<"all">>
        /\ user_query = <<>> => matched_types = <<"all">>
        /\ user_query = <<"price", "cost">> => "price" \in Range(matched_types)

\* Two element types score differently and only the better one is returned.
MatchIntentSelectionCase ==
    /\ pc = "matched"
    /\ \E e, o \in DOMAIN scores :
          /\ 10 * scores[e] < 7 * scores[o]
          /\ e \notin Range(matched_types)
          /\ o \in Range(matched_types)
    /\ \E e, o \in Range(matched_types) : scores[e] < scores[o]

\* the number of tokens that are a substring of, or contain, a keyword of the type
TokenHits(element_type, tokens) ==
    Cardinality({i \in 1..Len(tokens) :
                    \E j \in 1..Len(element_keywords[element_type]) :
                        KeywordMatch(tokens[i], element_keywords[element_type][j])})

\* C3: the score of an element type is the number of tokens that match at least
\* one of its keywords; a token counts once however many keywords it matches.
ScoreCountsTokensOnce ==
    pc = "matched" =>
        \A e \in Range(ElementTypes) :
            (IF e \in DOMAIN scores THEN scores[e] ELSE 0) = TokenHits(e, user_query)

\* A token that matches two keywords of one element type has been scored.
ScoreTwoKeywordsCase ==
    /\ pc = "matched"
    /\ user_query = <<"meta">>
    /\ scores["meta"] = 2


(***************************************************************************)
(* The parsed document.  A table element is the sequence of its items in   *)
(* document order.  An item is a tr (is_row) with the raw texts of its     *)
(* th/td cells and the element it sits in: the table itself, a thead or a  *)
(* tbody; or it is a thead or tbody that holds no tr (is_row = FALSE).     *)
(* Neighbouring rows with the same parent sit in the same section.         *)
(***************************************************************************)
RowSamples == {<<>>, <<" a ">>, <<"b", " ">>, <<" ", "\t">>, <<"a", "b", "a">>}

TableItems ==
    {[parent |-> p, is_row |-> TRUE, cells |-> c] :
        p \in {"table", "thead", "tbody"}, c \in RowSamples}
    \cup {[parent |-> p, is_row |-> FALSE, cells |-> <<>>] : p \in {"thead", "tbody"}}

RECURSIVE Concat(_)
Concat(seqs) == IF seqs = <<>> THEN <<>> ELSE Head(seqs) \o Concat(Tail(seqs))

Map(Op(_), s) == [i \in 1..Len(s) |-> Op(s[i])]

\* the index of the first element of s that satisfies Test, 0 when there is none
FirstIndex(s, Test(_)) ==
    IF \E i \in 1..Len(s) : Test(s[i])
    THEN CHOOSE i \in 1..Len(s) : Test(s[i]) /\ \A j \in 1..(i - 1) : ~Test(s[j])
    ELSE 0

\* table.find(tag) for tag thead or tbody: 0, or the index of the section's first item
FindSection(table, tag) == FirstIndex(table, LAMBDA it : it.parent = tag)

\* section.find_all('tr'): the rows of the section that starts at item i
RECURSIVE RowsFrom(_, _, _)
RowsFrom(table, i, tag) ==
    IF i > Len(table) \/ ~table[i].is_row \/ table[i].parent # tag THEN <<>>
    ELSE <<table[i]>> \o RowsFrom(table, i + 1, tag)

SectionRows(table, tag) == RowsFrom(table, FindSection(table, tag), tag)

\* table.find_all('tr')
AllRows(table) == SelectSeq(table, LAMBDA it : it.is_row)

\* [self.cleaner.clean_text(td.get_text()) for td in row.find_all(['td', 'th'])]
CleanCells(row) == Map(clean_text, row.cells)

\* any(cells)
AnyCell(cells) == \E i \in 1..Len(cells) : cells[i] # ""

\* [f'Column_{i+1}' for i in range(num_cols)]
ColumnNames(num_cols) == [i \in 1..num_cols |-> "Column_" \o ToString(i)]

(***************************************************************************)
(* WebScraper._extract_all_tables                                          *)
(***************************************************************************)
\* lines 502-509: the cells of the thead, else the cells of the first tr
FoundHeaders(table) ==
    IF FindSection(table, "thead") # 0
    THEN Concat(Map(CleanCells, SectionRows(table, "thead")))
    ELSE IF AllRows(table) # <<>> THEN CleanCells(AllRows(table)[1]) ELSE <<>>

\* lines 511-516: Column_N headers when none were found
TableHeaders(table) ==
    IF FoundHeaders(table) # <<>> THEN FoundHeaders(table)
    ELSE IF AllRows(table) # <<>> THEN ColumnNames(Len(AllRows(table)[1].cells))
    ELSE <<>>

\* lines 519-520
RowsToProcess(table) ==
    IF FindSection(table, "tbody") # 0 THEN SectionRows(table, "tbody") ELSE AllRows(table)

\* line 523
StartIdx(table) ==
    IF FindSection(table, "thead") = 0 /\ TableHeaders(table) # <<>> THEN 1 ELSE 0

\* lines 525-528
RowsData(table) ==
    LET rows == RowsToProcess(table)
        cells == Map(CleanCells, SubSeq(rows, StartIdx(table) + 1, Len(rows)))
    IN SelectSeq(cells, LAMBDA c : c # <<>> /\ AnyCell(c))

\* line 532: 'table_number': table_idx + 1, table_idx counting from 0
TableNumberMut(table_idx) == 1

TableNumber(table_idx) == table_idx + 1

TableRecord(table, table_idx) ==
    [table_number |-> TableNumber(table_idx),
     headers |-> TableHeaders(table),
     rows |-> RowsData(table),
     row_count |-> Len(RowsData(table)),
     column_count |-> Len(TableHeaders(table))]

\* lines 498-539; idx counts from 1 here, enumerate() from 0
RECURSIVE ExtractTablesFrom(_, _)
ExtractTablesFrom(tables, idx) ==
    IF idx > Len(tables) THEN <<>>
    ELSE LET rec == TableRecord(tables[idx], idx - 1)
         IN (IF rec.rows # <<>> /\ rec.headers # <<>> THEN <<rec>> ELSE <<>>)
            \o ExtractTablesFrom(tables, idx + 1)

extract_all_tables(doc) == ExtractTablesFrom(doc.tables, 1)

(***************************************************************************)
(* create_clean_csv_data: the tables branch                                *)
(***************************************************************************)
\* data_frames[name] = frame
Put(frames, name, frame) ==
    [n \in DOMAIN frames \cup {name} |-> IF n = name THEN frame ELSE frames[n]]

NoFrames == [n \in {} |-> <<>>]

\* [''] * n
RECURSIVE Blanks(_)
Blanks(n) == IF n <= 0 THEN <<>> ELSE <<"">> \o Blanks(n - 1)

\* lines 884-887: pad or trim a row to the header length
NormalizeRowMut(row, max_cols) ==
    IF Len(row) < max_cols THEN row \o Blanks(max_cols - Len(row)) ELSE row

NormalizeRow(row, max_cols) ==
    IF Len(row) < max_cols THEN row \o Blanks(max_cols - Len(row))
    ELSE IF Len(row) > max_cols THEN SubSeq(row, 1, max_cols)
    ELSE row

\* lines 872-892
RECURSIVE TableFrames(_, _, _)
TableFrames(frames, items, i) ==
    IF i > Len(items) THEN frames
    ELSE LET table_data == items[i]
             headers == table_data.headers
             rows == table_data.rows
             frame == [columns |-> headers,
                       rows |-> [r \in 1..Len(rows) |-> NormalizeRow(rows[r], Len(headers))]]
         IN IF rows # <<>> /\ headers # <<>>
            THEN TableFrames(Put(frames, "6_Table_" \o ToString(table_data.table_number), frame),
                             items, i + 1)
            ELSE TableFrames(frames, items, i + 1)


(***************************************************************************)
(* A form element is the sequence of its child nodes in document order.    *)
(* A node is a control (input, textarea, select, button) or a label; a     *)
(* label holds its own text and at most one control (child).  Absent       *)
(* string attributes read as '' through .get(attr, ''); only type has a    *)
(* non-empty default, so its absence is kept apart as Absent.  The string  *)
(* attributes that the extractor only copies (min, max, maxlength,         *)
(* pattern, class, rows, cols, size, enctype, autocomplete, target, data-*,*)
(* readonly, checked, multiple) are left out of nodes and records.         *)
(***************************************************************************)
Control(tag, type, id, name) ==
    [tag |-> tag, type |-> type, id |-> id, name |-> name, value |-> Absent,
     placeholder |-> "", aria_label |-> "", required |-> FALSE, disabled |-> FALSE,
     hidden |-> FALSE, text |-> "", options |-> <<>>]

Label(for, txt, child) == [tag |-> "label", for |-> for, text |-> txt, child |-> child]

InText == [Control("input", Absent, "", "q") EXCEPT !.placeholder = " Find"]
InHidden == [Control("input", "hidden", "", "csrf") EXCEPT !.value = "t", !.disabled = TRUE]
InSubmit == Control("input", "submit", "", "")
InX == [Control("input", "Text", "x", "user_name") EXCEPT !.aria_label = "Aria"]
InAria == [Control("input", Absent, "", "n") EXCEPT !.aria_label = "Aria", !.placeholder = "Hint"]
TextArea == [Control("textarea", Absent, "", "msg-body") EXCEPT !.text = "hi", !.hidden = TRUE]
Select ==
    [Control("select", Absent, "", "s") EXCEPT
        !.required = TRUE,
        !.options = <<[value |-> "1", text |-> " one", selected |-> TRUE, disabled |-> FALSE],
                      [value |-> "", text |-> "two", selected |-> FALSE, disabled |-> TRUE]>>]
SelectEmpty == Control("select", Absent, "e", "none")
Button == [Control("button", Absent, "", "") EXCEPT !.text = "Go"]
InWrapped == Control("input", Absent, "", "w")

NodeSamples ==
    {InText, InHidden, InSubmit, InX, InAria, TextArea, Select, SelectEmpty, Button,
     Label("x", "For", <<>>), Label("", " Sib ", <<>>), Label("", "Wrap", <<InWrapped>>)}

FormElement(id, nodes) == [id |-> id, name |-> "", method |-> Absent, nodes |-> nodes]

\* element.get(attr, default)
GetAttr(el, attr, default) == IF el[attr] = Absent THEN default ELSE el[attr]

\* dict.get(key, default)
Get(d, key, default) == IF key \in DOMAIN d THEN d[key] ELSE default

UpperLetters == "ABCDEFGHIJKLMNOPQRSTUVWXYZ"
LowerLetters == "abcdefghijklmnopqrstuvwxyz"

IndexIn(c, s) == FirstIndex([i \in 1..Len(s) |-> CharAt(s, i)], LAMBDA x : x = c)

UpperSet == {CharAt(UpperLetters, i) : i \in 1..Len(UpperLetters)}
LowerSet == {CharAt(LowerLetters, i) : i \in 1..Len(LowerLetters)}

UpperChar(c) ==
    IF c \in LowerSet THEN CharAt(UpperLetters, IndexIn(c, LowerLetters)) ELSE c

LowerChar(c) ==
    IF c \in UpperSet THEN CharAt(LowerLetters, IndexIn(c, UpperLetters)) ELSE c

IsCased(c) == c \in LowerSet \/ c \in UpperSet

RECURSIVE MapChars(_, _)
MapChars(Op(_), s) ==
    IF Len(s) = 0 THEN ""
    ELSE IF Len(s) = 1 THEN Op(s)
    ELSE MapChars(Op, SubSeq(s, 1, Len(s) \div 2))
             \o MapChars(Op, SubSeq(s, Len(s) \div 2 + 1, Len(s)))

\* str.lower(), str.upper()
Lower(s) == MapChars(LowerChar, s)
Upper(s) == MapChars(UpperChar, s)

\* str.replace(old, new) for a one-character old
Replace(s, old, new) == MapChars(LAMBDA c : IF c = old THEN new ELSE c, s)

\* str.title(): a cased character is upper-cased after an uncased one, else lower-cased
RECURSIVE TitleFrom(_, _, _)
TitleFrom(s, i, after_cased) ==
    IF i > Len(s) THEN ""
    ELSE LET c == CharAt(s, i)
         IN (IF after_cased THEN LowerChar(c) ELSE UpperChar(c))
            \o TitleFrom(s, i + 1, IsCased(c))

Title(s) == TitleFrom(s, 1, FALSE)

\* the controls of a form in document order, each with the label that holds it
\* (wrapper: empty or that label) and the index of its top-level node (top)
ElementsOfNode(node, i) ==
    IF node.tag = "label"
    THEN [k \in 1..Len(node.child) |-> [el |-> node.child[k], wrapper |-> <<node>>, top |-> i]]
    ELSE <<[el |-> node, wrapper |-> <<>>, top |-> i]>>

Elements(form) == Concat([i \in 1..Len(form.nodes) |-> ElementsOfNode(form.nodes[i], i)])

\* form.find_all(tag)
FindAll(form, tag) == SelectSeq(Elements(form), LAMBDA e : e.el.tag = tag)

\* element.get_text() of a control: the strings inside it
RECURSIVE OptionTexts(_)
OptionTexts(options) ==
    IF options = <<>> THEN "" ELSE Head(options).text \o OptionTexts(Tail(options))

ControlText(el) == IF el.tag = "select" THEN OptionTexts(el.options) ELSE el.text

\* label.get_text(): its own text, then the text of the control it holds
LabelText(label) ==
    label.text \o (IF label.child = <<>> THEN "" ELSE ControlText(label.child[1]))

(***************************************************************************)
(* WebScraper._find_label_for_element                                      *)
(***************************************************************************)
\* form.find('label', attrs={'for': element_id}): 0 or the index of the label
LabelFor(form, element_id) ==
    FirstIndex(form.nodes, LAMBDA n : n.tag = "label" /\ n.for = element_id)

\* element.find_previous_sibling('label'): 0 or the index of the nearest label
\* among the siblings before the element
PreviousSiblingLabel(form, e) ==
    IF e.wrapper # <<>> THEN 0
    ELSE IF \E j \in 1..(e.top - 1) : form.nodes[j].tag = "label"
    THEN CHOOSE j \in 1..(e.top - 1) :
            /\ form.nodes[j].tag = "label"
            /\ \A k \in (j + 1)..(e.top - 1) : form.nodes[k].tag # "label"
    ELSE 0

find_label_for_element(form, e) ==
    LET element_id == e.el.id
        element_name == e.el.name
    IN IF element_id # "" /\ LabelFor(form, element_id) # 0
       THEN clean_text(LabelText(form.nodes[LabelFor(form, element_id)]))
       ELSE IF e.wrapper # <<>>
       THEN clean_text(LabelText(e.wrapper[1]))
       ELSE IF PreviousSiblingLabel(form, e) # 0
       THEN clean_text(LabelText(form.nodes[PreviousSiblingLabel(form, e)]))
       ELSE IF e.el.aria_label # ""
       THEN clean_text(e.el.aria_label)
       ELSE IF e.el.placeholder # ""
       THEN clean_text(e.el.placeholder)
       ELSE IF element_name # ""
       THEN Title(Replace(Replace(element_name, "_", " "), "-", " "))
       ELSE ""

(***************************************************************************)
(* WebScraper._extract_all_forms                                           *)
(***************************************************************************)
\* lines 646-667
InputFieldMut(form, e, field_position) ==
    LET input_type == Lower(GetAttr(e.el, "type", "text"))
    IN [position |-> field_position, element_type |-> "input", input_type |-> input_type,
        name |-> e.el.name, id |-> e.el.id,
        value |-> clean_text(GetAttr(e.el, "value", "")),
        placeholder |-> clean_text(e.el.placeholder),
        label |-> find_label_for_element(form, e),
        required |-> e.el.required, disabled |-> e.el.disabled,
        hidden |-> e.el.hidden,
        aria_label |-> e.el.aria_label]

InputField(form, e, field_position) ==
    LET input_type == Lower(GetAttr(e.el, "type", "text"))
    IN [position |-> field_position, element_type |-> "input", input_type |-> input_type,
        name |-> e.el.name, id |-> e.el.id,
        value |-> clean_text(GetAttr(e.el, "value", "")),
        placeholder |-> clean_text(e.el.placeholder),
        label |-> find_label_for_element(form, e),
        required |-> e.el.required, disabled |-> e.el.disabled,
        hidden |-> (input_type = "hidden" \/ e.el.hidden),
        aria_label |-> e.el.aria_label]

\* lines 673-692
TextareaField(form, e, field_position) ==
    [position |-> field_position, element_type |-> "textarea", input_type |-> "textarea",
     name |-> e.el.name, id |-> e.el.id, value |-> clean_text(e.el.text),
     placeholder |-> clean_text(e.el.placeholder),
     label |-> find_label_for_element(form, e),
     required |-> e.el.required, disabled |-> e.el.disabled, hidden |-> e.el.hidden,
     aria_label |-> e.el.aria_label]

\* lines 700-726
SelectField(form, e, field_position) ==
    LET options == [k \in 1..Len(e.el.options) |->
                       [value |-> e.el.options[k].value,
                        text |-> clean_text(e.el.options[k].text),
                        selected |-> e.el.options[k].selected,
                        disabled |-> e.el.options[k].disabled]]
    IN [position |-> field_position, element_type |-> "select", input_type |-> "select",
        name |-> e.el.name, id |-> e.el.id,
        label |-> find_label_for_element(form, e),
        required |-> e.el.required, disabled |-> e.el.disabled, hidden |-> e.el.hidden,
        options |-> options, options_count |-> Len(options),
        aria_label |-> e.el.aria_label]

\* lines 732-744
ButtonField(form, e, field_position) ==
    [position |-> field_position, element_type |-> "button",
     input_type |-> GetAttr(e.el, "type", "button"),
     name |-> e.el.name, id |-> e.el.id, value |-> clean_text(GetAttr(e.el, "value", "")),
     text |-> clean_text(e.el.text), disabled |-> e.el.disabled,
     aria_label |-> e.el.aria_label]

\* lines 752-761
SubmitField(e, field_position) ==
    [position |-> field_position, element_type |-> "input", input_type |-> "submit",
     name |-> e.el.name, id |-> e.el.id,
     value |-> clean_text(GetAttr(e.el, "value", "Submit")),
     disabled |-> e.el.disabled]

FieldOf(form, e, field_position) ==
    CASE e.el.tag = "input" -> InputField(form, e, field_position)
      [] e.el.tag = "textarea" -> TextareaField(form, e, field_position)
      [] e.el.tag = "select" -> SelectField(form, e, field_position)
      [] e.el.tag = "button" -> ButtonField(form, e, field_position)

\* one of the four loops of lines 642-745: each element of elems appends a field
RECURSIVE AppendFields(_, _, _, _)
AppendFields(form, fields, elems, k) ==
    IF k > Len(elems) THEN fields
    ELSE AppendFields(form, Append(fields, FieldOf(form, elems[k], Len(fields) + 1)),
                      elems, k + 1)

\* lines 749-750: any(f['id'] == id and f['name'] == name for f in form_data['fields'])
AlreadyCapturedMut(fields, el) ==
    \E k \in 1..Len(fields) :
        fields[k].element_type = "button" /\ fields[k].id = el.id /\ fields[k].name = el.name

AlreadyCaptured(fields, el) ==
    \E k \in 1..Len(fields) : fields[k].id = el.id /\ fields[k].name = el.name

\* lines 748-762: form.find_all('input', type='submit')
RECURSIVE AppendSubmits(_, _, _)
AppendSubmits(fields, elems, k) ==
    IF k > Len(elems) THEN fields
    ELSE IF elems[k].el.type = "submit" /\ ~AlreadyCaptured(fields, elems[k].el)
    THEN AppendSubmits(Append(fields, SubmitField(elems[k], Len(fields) + 1)), elems, k + 1)
    ELSE AppendSubmits(fields, elems, k + 1)

\* the order of the loops: input, textarea, select, button
FormFields(form) ==
    LET inputs == AppendFields(form, <<>>, FindAll(form, "input"), 1)
        textareas == AppendFields(form, inputs, FindAll(form, "textarea"), 1)
        selects == AppendFields(form, textareas, FindAll(form, "select"), 1)
        buttons == AppendFields(form, selects, FindAll(form, "button"), 1)
    IN AppendSubmits(buttons, FindAll(form, "input"), 1)

CountIf(s, Test(_)) == Cardinality({k \in 1..Len(s) : Test(s[k])})

\* line 626: 'form_number': form_idx + 1, form_idx counting from 0
FormNumber(form_idx) == form_idx + 1

\* lines 625-636 and 764-767; the forms of the model have no action attribute
FormRecord(form, form_idx) ==
    LET fields == FormFields(form)
    IN [form_number |-> FormNumber(form_idx), form_id |-> form.id, form_name |-> form.name,
        action |-> "", method |-> Upper(GetAttr(form, "method", "GET")),
        fields |-> fields,
        total_fields |-> Len(fields),
        hidden_fields |-> CountIf(fields, LAMBDA f : Get(f, "hidden", FALSE)),
        required_fields |-> CountIf(fields, LAMBDA f : Get(f, "required", FALSE)),
        disabled_fields |-> CountIf(fields, LAMBDA f : Get(f, "disabled", FALSE))]

extract_all_forms(doc) == [i \in 1..Len(doc.forms) |-> FormRecord(doc.forms[i], i - 1)]


(***************************************************************************)
(* create_clean_csv_data: the forms branch and the whole function.  A      *)
(* frame built from a list of dicts has records for rows; only the columns *)
(* of the modelled record keys are kept.                                   *)
(***************************************************************************)
YesNo(b) == IF b THEN "Yes" ELSE "No"

\* lines 931-945
FormOverview(form) ==
    [Form_Number |-> Get(form, "form_number", 1),
     Form_ID |-> Get(form, "form_id", ""),
     Form_Name |-> Get(form, "form_name", ""),
     Action_URL |-> Get(form, "action", ""),
     Method |-> Get(form, "method", ""),
     Total_Fields |-> Get(form, "total_fields", 0),
     Hidden_Fields |-> Get(form, "hidden_fields", 0),
     Required_Fields |-> Get(form, "required_fields", 0),
     Disabled_Fields |-> Get(form, "disabled_fields", 0)]

\* lines 954-981
FieldRow(field) ==
    [Position |-> Get(field, "position", ""),
     Element_Type |-> Get(field, "element_type", ""),
     Input_Type |-> Get(field, "input_type", ""),
     Name |-> Get(field, "name", ""),
     ID |-> Get(field, "id", ""),
     Label |-> Get(field, "label", ""),
     Value |-> Get(field, "value", ""),
     Placeholder |-> Get(field, "placeholder", ""),
     Required |-> YesNo(Get(field, "required", FALSE)),
     Disabled |-> YesNo(Get(field, "disabled", FALSE)),
     Hidden |-> YesNo(Get(field, "hidden", FALSE)),
     Options_Count |-> Get(field, "options_count", ""),
     ARIA_Label |-> Get(field, "aria_label", ""),
     Text |-> Get(field, "text", "")]

\* lines 992-1000
OptionRow(field, opt) ==
    [Field_Name |-> Get(field, "name", ""),
     Field_ID |-> Get(field, "id", ""),
     Field_Label |-> Get(field, "label", ""),
     Option_Value |-> Get(opt, "value", ""),
     Option_Text |-> Get(opt, "text", ""),
     Selected |-> YesNo(Get(opt, "selected", FALSE)),
     Disabled |-> YesNo(Get(opt, "disabled", FALSE))]

\* lines 988-1000
SelectOptionsDataMut(fields) ==
    Concat([k \in 1..Len(fields) |->
               IF Get(fields[k], "element_type", "") = "select"
                  /\ Get(fields[k], "options", <<>>) # <<>>
               THEN <<OptionRow(fields[k], fields[k].options[1])>>
               ELSE <<>>])

SelectOptionsData(fields) ==
    Concat([k \in 1..Len(fields) |->
               IF Get(fields[k], "element_type", "") = "select"
                  /\ Get(fields[k], "options", <<>>) # <<>>
               THEN [o \in 1..Len(fields[k].options) |-> OptionRow(fields[k], fields[k].options[o])]
               ELSE <<>>])

\* the name of a sheet of one form
FormSheet(form_num, sheet) == "10_Form_" \o ToString(form_num) \o "_" \o sheet

\* lines 927-1004
RECURSIVE FormFrames(_, _, _)
FormFrames(frames, items, i) ==
    IF i > Len(items) THEN frames
    ELSE LET form == items[i]
             form_num == Get(form, "form_number", 1)
             fields == Get(form, "fields", <<>>)
             with_overview == Put(frames, FormSheet(form_num, "Overview"),
                                  [rows |-> <<FormOverview(form)>>])
             with_fields ==
                 IF fields # <<>>
                 THEN Put(with_overview, FormSheet(form_num, "Fields"),
                          [rows |-> Map(FieldRow, fields)])
                 ELSE with_overview
             with_options ==
                 IF SelectOptionsData(fields) # <<>>
                 THEN Put(with_fields, FormSheet(form_num, "Options"),
                          [rows |-> SelectOptionsData(fields)])
                 ELSE with_fields
         IN FormFrames(with_options, items, i + 1)

\* lines 838-844
MetadataFrame(metadata) ==
    [rows |-> <<[URL |-> metadata.url, Page_Title |-> metadata.title,
                 Description |-> metadata.description,
                 Scraped_DateTime |-> metadata.timestamp]>>]

\* lines 835-1011, for the categories tables and forms; an empty list is
\* skipped (line 848), as a missing category is
create_clean_csv_data(scrape_data) ==
    LET start == Put(NoFrames, "1_Metadata", MetadataFrame(scrape_data.metadata))
        with_tables == TableFrames(start, scrape_data.data.tables, 1)
    IN FormFrames(with_tables, scrape_data.data.forms, 1)

\* the metadata scrape_full sets for a document without title and description
PageMetadata == [url |-> "http://x", timestamp |-> "t0", title |-> "No title", description |-> ""]

(***************************************************************************)
(* The operations on a document.                                           *)
(***************************************************************************)
ExtractAllTables ==
    /\ pc = "parsed"
    /\ all_tables' = extract_all_tables(soup)
    /\ pc' = "tables"
    /\ UNCHANGED <<soup, forms, data_frames, textVars, intentVars, phoneVars, scrapeVars, urlVars>>

ExtractAllForms ==
    /\ pc \in {"parsed", "tables"}
    /\ forms' = extract_all_forms(soup)
    /\ pc' = "forms"
    /\ UNCHANGED <<soup, all_tables, data_frames, textVars, intentVars, phoneVars, scrapeVars, urlVars>>

CreateCleanCsvData ==
    /\ pc \in {"tables", "forms"}
    /\ data_frames' = create_clean_csv_data(
                          [metadata |-> PageMetadata,
                           data |-> [tables |-> all_tables, forms |-> forms]])
    /\ pc' = "csv"
    /\ UNCHANGED <<soup, all_tables, forms, textVars, intentVars, phoneVars, scrapeVars, urlVars>>

DocInit(tables, form_elements) ==
    /\ pc = "parsed"
    /\ soup = [EmptyDoc EXCEPT !.tables = tables, !.forms = form_elements]
    /\ all_tables = <<>>
    /\ forms = <<>>
    /\ data_frames = NoFrames
    /\ TextIdle
    /\ IntentIdle
    /\ PhoneIdle
    /\ UrlIdle
    /\ ScrapeIdle

(***************************************************************************)
(* The tables specification: a document with one table of up to MaxItems   *)
(* items.                                                                  *)
(***************************************************************************)
InitTables == \E table \in SeqsUpTo(TableItems, MaxItems) : DocInit(<<table>>, <<>>)

NextTables == ExtractAllTables \/ CreateCleanCsvData

SpecTables == InitTables /\ [][NextTables]_vars

(***************************************************************************)
(* The forms specification: a document with one form of up to MaxNodes     *)
(* nodes.                                                                  *)
(***************************************************************************)
InitForms ==
    \E nodes \in SeqsUpTo(NodeSamples, MaxNodes) : DocInit(<<>>, <<FormElement("f", nodes)>>)

NextForms == ExtractAllForms \/ CreateCleanCsvData

SpecForms == InitForms /\ [][NextForms]_vars

(***************************************************************************)
(* The page specification: a document with up to MaxTables tables and up   *)
(* to MaxForms forms.                                                      *)
(***************************************************************************)
Row(parent, cells) == [parent |-> parent, is_row |-> TRUE, cells |-> cells]

TableSamples ==
    {<<Row("table", <<"h">>), Row("table", <<"a">>)>>,
     <<Row("thead", <<"k", "l">>), Row("tbody", <<"b">>), Row("tbody", <<"a", "b", "a">>)>>,
     <<Row("table", <<"h">>)>>}

FormSamples ==
    {FormElement("f", <<InText, Select>>),
     FormElement("g", <<InSubmit>>),
     FormElement("", <<>>)}

InitPage ==
    \E tables \in SeqsUpTo(TableSamples, MaxTables), fs \in SeqsUpTo(FormSamples, MaxForms) :
        DocInit(tables, fs)

NextPage == ExtractAllTables \/ ExtractAllForms \/ CreateCleanCsvData

SpecPage == InitPage /\ [][NextPage]_vars


(***************************************************************************)
(* Properties of the table extractor and the table normaliser.             *)
(***************************************************************************)
TableSheet(rec) == "6_Table_" \o ToString(rec.table_number)

\* out has n entries: the values of row in order, then empty strings
PaddedOrCut(row, out, n) ==
    /\ Len(out) = n
    /\ \A k \in 1..n : out[k] = (IF k <= Len(row) THEN row[k] ELSE "")

\* C1: every row of an emitted table has exactly len(headers) entries: a shorter
\* row keeps its values in order and is padded at the end with empty strings, a
\* longer row is cut to its first len(headers) values.
TableRowsRectangular ==
    pc = "csv" =>
        \A i \in 1..Len(all_tables) :
            LET rec == all_tables[i]
                frame == data_frames[TableSheet(rec)]
            IN /\ Len(frame.rows) = Len(rec.rows)
               /\ \A r \in 1..Len(rec.rows) :
                     PaddedOrCut(rec.rows[r], frame.rows[r], Len(rec.headers))

\* A table with a row shorter and a row longer than its header has been normalised.
TableRowsRectangularCase ==
    /\ pc = "csv"
    /\ \E i \in 1..Len(all_tables) :
          /\ \E r \in 1..Len(all_tables[i].rows) :
                Len(all_tables[i].rows[r]) < Len(all_tables[i].headers)
          /\ \E r \in 1..Len(all_tables[i].rows) :
                Len(all_tables[i].rows[r]) > Len(all_tables[i].headers)

NoThead(table) == FindSection(table, "thead") = 0

\* the rows of the table other than its first that have a non-empty cell after cleaning
OtherRowsWithContent(table) ==
    SelectSeq(Map(CleanCells, Tail(AllRows(table))), AnyCell)

\* C5: for a table without a thead the headers are the cells of its first row and
\* the data rows are exactly its other rows that have a non-empty cell, in
\* document order, whether or not the rows sit inside a tbody.
FirstRowIsHeaderOthersAreData ==
    pc = "tables" =>
        \A i \in 1..Len(all_tables) :
            LET rec == all_tables[i]
                table == soup.tables[rec.table_number]
            IN NoThead(table) =>
                  /\ rec.headers = CleanCells(AllRows(table)[1])
                  /\ rec.rows = OtherRowsWithContent(table)

\* the first row yields no usable header strings: no cells, or only empty ones
NoUsableHeaders(table) ==
    AllRows(table) # <<>> /\ ~AnyCell(CleanCells(AllRows(table)[1]))

\* C6: a table without a thead whose first row yields no usable header strings
\* gets the headers Column_1..Column_N, N the cell count of the first row, and
\* is still emitted when it has data rows.
ColumnHeadersSynthesized ==
    pc = "tables" =>
        \A t \in 1..Len(soup.tables) :
            LET table == soup.tables[t]
            IN (NoThead(table) /\ NoUsableHeaders(table)) =>
                  /\ \A i \in 1..Len(all_tables) :
                        all_tables[i].table_number = t =>
                            all_tables[i].headers = ColumnNames(Len(AllRows(table)[1].cells))
                  /\ OtherRowsWithContent(table) # <<>> =>
                        \E i \in 1..Len(all_tables) : all_tables[i].table_number = t

\* the rows of the table outside a thead that have a non-empty cell after cleaning
RowsOutsideThead(table) ==
    SelectSeq(Map(CleanCells, SelectSeq(table, LAMBDA it : it.is_row /\ it.parent # "thead")),
              AnyCell)

\* C23: for a table with a thead the headers are the cleaned cells of the
\* thead, and the data rows are exactly the rows outside the thead that have a
\* non-empty cell, with or without a tbody.
TheadRowsAreHeadersOnly ==
    pc = "tables" =>
        \A i \in 1..Len(all_tables) :
            LET rec == all_tables[i]
                table == soup.tables[rec.table_number]
            IN ~NoThead(table) =>
                  /\ rec.headers = Concat(Map(CleanCells, SectionRows(table, "thead")))
                  /\ rec.rows = RowsOutsideThead(table)

\* A table of a thead row and a row outside it, without a tbody, has been
\* extracted with the thead row among its data rows.
TheadRowAmongDataCase ==
    /\ pc = "tables"
    /\ soup.tables = <<<<Row("thead", <<" a ">>), Row("table", <<"b", " ">>)>>>>
    /\ Len(all_tables) = 1
    /\ all_tables[1].headers = <<"a">>
    /\ all_tables[1].rows = <<<<"a">>, <<"b", "">>>>

\* C7: table_number and form_number strictly increase along the emitted records,
\* each record carries the number of its element in document order, and every
\* table and form keeps sheets of its own in create_clean_csv_data's result.
NumbersNeverReused ==
    /\ \A i, j \in 1..Len(all_tables) :
          i < j => all_tables[i].table_number < all_tables[j].table_number
    /\ \A i, j \in 1..Len(forms) : i < j => forms[i].form_number < forms[j].form_number
    /\ \A i \in 1..Len(all_tables) :
          /\ all_tables[i].table_number \in 1..Len(soup.tables)
          /\ all_tables[i].headers = TableHeaders(soup.tables[all_tables[i].table_number])
    /\ \A i \in 1..Len(forms) : forms[i].form_id = soup.forms[forms[i].form_number].id
    /\ pc = "csv" =>
          /\ \A i \in 1..Len(all_tables) :
                /\ TableSheet(all_tables[i]) \in DOMAIN data_frames
                /\ data_frames[TableSheet(all_tables[i])].columns = all_tables[i].headers
          /\ \A i \in 1..Len(forms) :
                /\ FormSheet(forms[i].form_number, "Overview") \in DOMAIN data_frames
                /\ data_frames[FormSheet(forms[i].form_number, "Overview")].rows[1].Form_ID
                       = forms[i].form_id
          /\ Cardinality(DOMAIN data_frames)
                 = 1 + Len(all_tables) + Len(forms)
                     + CountIf(forms, LAMBDA f : f.fields # <<>>)
                     + CountIf(forms, LAMBDA f : SelectOptionsData(f.fields) # <<>>)

\* Two tables with different headers and two forms have been extracted and normalised.
NumbersNeverReusedCase ==
    /\ pc = "csv"
    /\ Len(all_tables) = 2
    /\ all_tables[1].headers # all_tables[2].headers
    /\ Len(forms) = 2
    /\ forms[1].form_id # forms[2].form_id

(***************************************************************************)
(* Properties of the form extractor.                                       *)
(***************************************************************************)
ControlKinds == {"input", "textarea", "select", "button"}

NameAndId(x) == <<x.name, x.id>>

\* C8: every form gets exactly one field record per input, textarea, select and
\* button in it (a submit input is not recorded a second time), the positions
\* are 1..total_fields and total_fields is the number of controls.
OneFieldPerControl ==
    pc \in {"forms", "csv"} =>
        \A i \in 1..Len(forms) :
            LET fields == forms[i].fields
                controls == Elements(soup.forms[i])
            IN /\ Len(fields) = Len(controls)
               /\ forms[i].total_fields = Len(controls)
               /\ \A k \in 1..Len(fields) : fields[k].position = k
               /\ \A kind \in ControlKinds :
                     Map(NameAndId, SelectSeq(fields, LAMBDA f : f.element_type = kind))
                         = Map(LAMBDA e : NameAndId(e.el), FindAll(soup.forms[i], kind))

\* A form with a submit input and no button has been extracted.
OneFieldPerControlCase ==
    /\ pc = "forms"
    /\ \E i \in 1..Len(forms) :
          /\ \E k \in 1..Len(forms[i].fields) : forms[i].fields[k].input_type = "submit"
          /\ FindAll(soup.forms[i], "button") = <<>>
          /\ Len(forms[i].fields) >= 2

\* C9: the field records of a form are in the document order of its controls,
\* whatever their kinds.
FieldsInDocumentOrder ==
    pc = "forms" =>
        \A i \in 1..Len(forms) :
            LET fields == forms[i].fields
                controls == Elements(soup.forms[i])
            IN /\ Len(fields) = Len(controls)
               /\ \A k \in 1..Len(fields) :
                     /\ fields[k].element_type = controls[k].el.tag
                     /\ NameAndId(fields[k]) = NameAndId(controls[k].el)

\* the label sources in the stated priority order; the third is the label that
\* is the immediately preceding sibling of the control
LabelByPriority(form, e) ==
    IF e.el.id # "" /\ LabelFor(form, e.el.id) # 0
    THEN clean_text(LabelText(form.nodes[LabelFor(form, e.el.id)]))
    ELSE IF e.wrapper # <<>>
    THEN clean_text(LabelText(e.wrapper[1]))
    ELSE IF e.top > 1 /\ form.nodes[e.top - 1].tag = "label"
    THEN clean_text(LabelText(form.nodes[e.top - 1]))
    ELSE IF e.el.aria_label # ""
    THEN clean_text(e.el.aria_label)
    ELSE IF e.el.placeholder # ""
    THEN clean_text(e.el.placeholder)
    ELSE IF e.el.name # ""
    THEN Title(Replace(Replace(e.el.name, "_", " "), "-", " "))
    ELSE ""

\* C10: the label of an input, textarea or select is the first available source
\* in the order: label for=id, ancestor label, immediately preceding sibling
\* label, aria-label, placeholder, title-cased name, empty string.
LabelFollowsPriority ==
    pc = "forms" =>
        \A i \in 1..Len(forms) :
            \A kind \in {"input", "textarea", "select"} :
                LET fields == SelectSeq(forms[i].fields, LAMBDA f : f.element_type = kind)
                    controls == FindAll(soup.forms[i], kind)
                IN \A k \in 1..Len(controls) :
                      fields[k].label = LabelByPriority(soup.forms[i], controls[k])

(***************************************************************************)
(* Properties of the form sheets.                                          *)
(***************************************************************************)
\* the rows of a sheet of a form, none when the sheet is not emitted
SheetRows(form_num, sheet) ==
    IF FormSheet(form_num, sheet) \in DOMAIN data_frames
    THEN data_frames[FormSheet(form_num, sheet)].rows
    ELSE <<>>

YesCount(rows, column) == Cardinality({k \in 1..Len(rows) : rows[k][column] = "Yes"})

\* C11: in the overview of a form Total_Fields is the number of rows of its
\* fields table and Hidden_Fields, Required_Fields and Disabled_Fields are the
\* numbers of rows with "Yes" in Hidden, Required and Disabled; the row of an
\* input of type hidden has Hidden = "Yes".
OverviewCountsMatchFieldRows ==
    pc = "csv" =>
        \A i \in 1..Len(forms) :
            LET form_num == forms[i].form_number
                overview == SheetRows(form_num, "Overview")[1]
                rows == SheetRows(form_num, "Fields")
                inputs == FindAll(soup.forms[i], "input")
            IN /\ overview.Total_Fields = Len(rows)
               /\ overview.Hidden_Fields = YesCount(rows, "Hidden")
               /\ overview.Required_Fields = YesCount(rows, "Required")
               /\ overview.Disabled_Fields = YesCount(rows, "Disabled")
               /\ \A k \in 1..Len(inputs) :
                     Lower(GetAttr(inputs[k].el, "type", "text")) = "hidden" =>
                         /\ rows[k].Element_Type = "input"
                         /\ rows[k].Name = inputs[k].el.name
                         /\ rows[k].Hidden = "Yes"

\* The sheets of a form with a type=hidden input, a second hidden field and a
\* required field have been built.
OverviewCountsCase ==
    /\ pc = "csv"
    /\ \E i \in 1..Len(forms) :
          /\ \E k \in 1..Len(forms[i].fields) : forms[i].fields[k].input_type = "hidden"
          /\ SheetRows(forms[i].form_number, "Overview")[1].Hidden_Fields = 2
          /\ SheetRows(forms[i].form_number, "Overview")[1].Required_Fields = 1
          /\ SheetRows(forms[i].form_number, "Overview")[1].Disabled_Fields = 1

\* the options of the select fields, field by field, as (field name, value)
OptionsOfSelects(fields) ==
    Concat([k \in 1..Len(fields) |->
               IF fields[k].element_type = "select"
               THEN [o \in 1..Len(fields[k].options) |->
                        <<fields[k].name, fields[k].options[o].value>>]
               ELSE <<>>])

\* C19: for a form record create_clean_csv_data emits an overview of exactly
\* one row, a fields table exactly when the form has a field, with one row per
\* field in field order, and an options table exactly when a select field has
\* an option, with one row per option of every select field and no other row.
FormSheetsFollowFields ==
    pc = "csv" =>
        \A i \in 1..Len(forms) :
            LET form_num == forms[i].form_number
                fields == forms[i].fields
                rows == SheetRows(form_num, "Fields")
                options == SheetRows(form_num, "Options")
            IN /\ FormSheet(form_num, "Overview") \in DOMAIN data_frames
               /\ Len(SheetRows(form_num, "Overview")) = 1
               /\ FormSheet(form_num, "Fields") \in DOMAIN data_frames <=> Len(fields) >= 1
               /\ Len(rows) = Len(fields)
               /\ \A k \in 1..Len(fields) :
                     /\ rows[k].Position = fields[k].position
                     /\ rows[k].Element_Type = fields[k].element_type
                     /\ rows[k].Name = fields[k].name
               /\ FormSheet(form_num, "Options") \in DOMAIN data_frames
                     <=> \E k \in 1..Len(fields) :
                            fields[k].element_type = "select" /\ Len(fields[k].options) >= 1
               /\ Map(LAMBDA r : <<r.Field_Name, r.Option_Value>>, options)
                     = OptionsOfSelects(fields)

\* The sheets of a form with a select of two options, a select without options
\* and a field of another kind have been built.
FormSheetsCase ==
    /\ pc = "csv"
    /\ \E i \in 1..Len(forms) :
          /\ Len(SheetRows(forms[i].form_number, "Fields")) = 3
          /\ Len(SheetRows(forms[i].form_number, "Options")) = 2
          /\ \E k \in 1..3 : /\ forms[i].fields[k].element_type = "select"
                             /\ forms[i].fields[k].options = <<>>
          /\ \E k \in 1..3 : forms[i].fields[k].element_type = "input"

(***************************************************************************)
(* DataCleaner.standardize_phone                                           *)
(***************************************************************************)
Digits == {"0", "1", "2", "3", "4", "5", "6", "7", "8", "9"}

\* line 103: the least length at which the stripped string is returned
MinPhoneLength == 10

\* line 100: re.sub(r'[^\d+]', '', str(phone))
RECURSIVE RemoveNonPhoneChars(_)
RemoveNonPhoneChars(s) ==
    IF s = "" THEN ""
    ELSE (IF CharAt(s, 1) \in Digits \cup {"+"} THEN CharAt(s, 1) ELSE "")
         \o RemoveNonPhoneChars(SubSeq(s, 2, Len(s)))

\* lines 93-106
standardize_phoneMut(p) ==
    IF p = "" THEN "" ELSE RemoveNonPhoneChars(p)

standardize_phone(p) ==
    IF p = "" THEN ""
    ELSE LET digits == RemoveNonPhoneChars(p)
         IN IF Len(digits) >= MinPhoneLength THEN digits ELSE p

(***************************************************************************)
(* The standardize_phone specification: one string of up to MaxPieces      *)
(* pieces, standardized.                                                   *)
(***************************************************************************)
MaxPieces == 3

PhonePieces == {"555", "(555) ", "123-", "4567", "+1 ", "12", "+", "x."}

RECURSIVE JoinPieces(_)
JoinPieces(pieces) ==
    IF pieces = <<>> THEN "" ELSE Head(pieces) \o JoinPieces(Tail(pieces))

InitPhone ==
    /\ pc = "phone"
    /\ \E pieces \in SeqsUpTo(PhonePieces, MaxPieces) : phone = JoinPieces(pieces)
    /\ standardized = ""
    /\ TextIdle
    /\ IntentIdle
    /\ DocIdle
    /\ ScrapeIdle
    /\ UrlIdle

StandardizePhone ==
    /\ pc = "phone"
    /\ standardized' = standardize_phone(phone)
    /\ pc' = "standardized"
    /\ UNCHANGED <<phone, textVars, intentVars, docVars, scrapeVars, urlVars>>

NextPhone == StandardizePhone

SpecPhone == InitPhone /\ [][NextPhone]_vars

(***************************************************************************)
(* Properties of standardize_phone.                                        *)
(***************************************************************************)
\* the positions of the digits and '+' of p
KeptPositions(p) == {i \in 1..Len(p) : CharAt(p, i) \in Digits \cup {"+"}}

\* s holds, in order, exactly the characters of p that are digits or '+'
IsStrippedOf(s, p) ==
    LET keep == KeptPositions(p)
    IN /\ Len(s) = Cardinality(keep)
       /\ \A i \in keep : CharAt(s, Cardinality({j \in keep : j <= i})) = CharAt(p, i)

\* C20: standardize_phone returns the input with every character other than a
\* digit or '+' removed exactly when that stripped string has 10 characters or
\* more, and the input unchanged otherwise; "(555) 123-4567" gives
\* "5551234567" and "12" gives "12".
StandardizePhoneByLength ==
    pc = "standardized" =>
        /\ Cardinality(KeptPositions(phone)) >= 10 => IsStrippedOf(standardized, phone)
        /\ Cardinality(KeptPositions(phone)) < 10 => standardized = phone
        /\ phone = "(555) 123-4567" => standardized = "5551234567"
        /\ phone = "12" => standardized = "12"

\* "(555) 123-4567" has been standardized.
StandardizePhoneCase ==
    pc = "standardized" /\ phone = "(555) 123-4567" /\ standardized # phone

\* C21: a string standardize_phone returns in place of its input consists of
\* digits after at most one '+', which is its first character, and the input
\* then has 10 digits or more.
CleanedIsDigitsAfterPlus ==
    pc = "standardized" /\ standardized # phone =>
        /\ CharAt(standardized, 1) \in Digits \cup {"+"}
        /\ \A i \in 2..Len(standardized) : CharAt(standardized, i) \in Digits
        /\ Cardinality({i \in 1..Len(phone) : CharAt(phone, i) \in Digits}) >= 10

\* A string with a '+' after its first character has been returned in place
\* of an input of fewer than 10 digits.
CleanedWithInnerPlusCase ==
    /\ pc = "standardized"
    /\ standardized # phone
    /\ \E i \in 2..Len(standardized) : CharAt(standardized, i) = "+"
    /\ Cardinality({i \in 1..Len(phone) : CharAt(phone, i) \in Digits}) < 10

(***************************************************************************)
(* IntelligentElementMatcher.extract_pattern for the patterns email, phone *)
(* and price.  A pattern is matched from a start position by following the *)
(* set of positions its successive parts can reach; re.findall takes the   *)
(* leftmost matches, each as far as its greedy parts reach, and resumes    *)
(* after a match.                                                          *)
(***************************************************************************)
Letters == LowerSet \cup UpperSet

\* \w, \s and the separator class [-.\s]
WordChars == Letters \cup Digits \cup {"_"}
SpaceChars == {" ", "\t", "\n", "\r", NBSP}
SepChars == {"-", "."} \cup SpaceChars

\* the character at position i, '' outside the string
Ch(s, i) == IF i >= 1 /\ i <= Len(s) THEN CharAt(s, i) ELSE ""

\* \b: the positions of P with a word character on exactly one side
AtBoundary(s, P) == {i \in P : (Ch(s, i - 1) \in WordChars) # (Ch(s, i) \in WordChars)}

\* one character of the class C
One(s, P, C) == {i + 1 : i \in {j \in P : Ch(s, j) \in C}}

\* C?
Optional(s, P, C) == P \cup One(s, P, C)

\* C{n}
Exactly(s, P, C, n) == {i + n : i \in {j \in P : \A k \in j..(j + n - 1) : Ch(s, k) \in C}}

\* the end of the run of characters of C that starts at position i
RECURSIVE RunEnd(_, _, _)
RunEnd(s, i, C) == IF Ch(s, i) \in C THEN RunEnd(s, i + 1, C) ELSE i

\* C{n,}
AtLeast(s, P, C, n) == UNION {(i + n)..RunEnd(s, i, C) : i \in P}

\* a literal word, case-insensitively (re.IGNORECASE)
Literal(s, P, word) ==
    {i + Len(word) : i \in {j \in P : /\ j + Len(word) - 1 <= Len(s)
                                      /\ Lower(SubSeq(s, j, j + Len(word) - 1)) = word}}

\* line 127: \b[A-Za-z0-9._%+-]+@[A-Za-z0-9.-]+\.[A-Z|a-z]{2,}\b
EmailEnds(s, i) ==
    LET local == AtLeast(s, AtBoundary(s, {i}), Letters \cup Digits \cup {".", "_", "%", "+", "-"}, 1)
        domain == AtLeast(s, One(s, local, {"@"}), Letters \cup Digits \cup {".", "-"}, 1)
        tld == AtLeast(s, One(s, domain, {"."}), Letters \cup {"|"}, 2)
    IN AtBoundary(s, tld)

\* (?:\+?1[-.\s]?)?
CountryCode(s, P) == P \cup Optional(s, One(s, Optional(s, P, {"+"}), {"1"}), SepChars)

\* line 128: \b(?:\+?1[-.\s]?)?\(?\d{3}\)?[-.\s]?\d{3}[-.\s]?\d{4}\b
PhoneEnds(s, i) ==
    LET area == Optional(s, Exactly(s, Optional(s, CountryCode(s, AtBoundary(s, {i})), {"("}),
                                    Digits, 3),
                         {")"})
        exchange == Exactly(s, Optional(s, area, SepChars), Digits, 3)
        number == Exactly(s, Optional(s, exchange, SepChars), Digits, 4)
    IN AtBoundary(s, number)

\* (?:,\d{3})*: P grown by the positions one more group reaches, until none is new
RECURSIVE Thousands(_, _)
Grown(s, P, Q) == IF Q \subseteq P THEN P ELSE Thousands(s, P \cup Q)
Thousands(s, P) == Grown(s, P, Exactly(s, One(s, P, {","}), Digits, 3))

\* (?:\.\d{2})?
Cents(s, P) == P \cup Exactly(s, One(s, P, {"."}), Digits, 2)

\* \d+(?:,\d{3})*(?:\.\d{2})?
Amount(s, P) == Cents(s, Thousands(s, AtLeast(s, P, Digits, 1)))

\* (?:USD|EUR|GBP|dollars?)
Units == {"usd", "eur", "gbp", "dollar", "dollars"}

AnyLiteral(s, P, words) == UNION {Literal(s, P, word) : word \in words}

\* A|B: the first alternative that matches
FirstOf(A, B) == IF A # {} THEN A ELSE B

\* line 129: \$\s*\d+(?:,\d{3})*(?:\.\d{2})?
\*           |\b\d+(?:,\d{3})*(?:\.\d{2})?\s*(?:USD|EUR|GBP|dollars?)\b
PriceEnds(s, i) ==
    FirstOf(Amount(s, AtLeast(s, One(s, {i}, {"$"}), SpaceChars, 0)),
            AtBoundary(s, AnyLiteral(s, AtLeast(s, Amount(s, AtBoundary(s, {i})), SpaceChars, 0),
                                     Units)))

\* lines 126-129: self.patterns
PatternTypes == {"email", "phone", "price"}

\* the characters a match of the pattern can start with
FirstChars(pattern_type) ==
    CASE pattern_type = "email" -> Letters \cup Digits \cup {".", "_", "%", "+", "-"}
      [] pattern_type = "phone" -> Digits \cup {"+", "("}
      [] pattern_type = "price" -> Digits \cup {"$"}

\* the positions where a match that starts at position i can end
MatchEnds(pattern_type, s, i) ==
    IF Ch(s, i) \notin FirstChars(pattern_type) THEN {}
    ELSE CASE pattern_type = "email" -> EmailEnds(s, i)
           [] pattern_type = "phone" -> PhoneEnds(s, i)
           [] pattern_type = "price" -> PriceEnds(s, i)

SetMax(S) == CHOOSE x \in S : \A y \in S : y <= x
SetMin(S) == CHOOSE x \in S : \A y \in S : x <= y

\* re.findall from position i on, ends[j] being the ends of the matches that
\* start at j: the leftmost match, taken to its greedy end, then the matches after it
RECURSIVE FindAllFrom(_, _, _)
MatchAt(s, ends, start) ==
    <<SubSeq(s, start, SetMax(ends[start]) - 1)>> \o FindAllFrom(s, ends, SetMax(ends[start]))

FindAllFrom(s, ends, i) ==
    IF \A j \in i..Len(s) : ends[j] = {} THEN <<>>
    ELSE MatchAt(s, ends, SetMin({j \in i..Len(s) : ends[j] # {}}))

\* re.findall(pattern, text, re.IGNORECASE)
re_findall(pattern_type, s) ==
    FindAllFrom(s, [j \in 1..Len(s) |-> MatchEnds(pattern_type, s, j)], 1)

\* lines 193-198
extract_pattern(s, pattern_type) ==
    IF pattern_type \in PatternTypes THEN re_findall(pattern_type, s) ELSE <<>>

(***************************************************************************)
(* DataCleaner.validate_email                                              *)
(***************************************************************************)
\* lines 108-115: ^[a-zA-Z0-9._%+-]+@[a-zA-Z0-9.-]+\.[a-zA-Z]{2,}$
validate_email(email) ==
    LET local == AtLeast(email, {1}, Letters \cup Digits \cup {".", "_", "%", "+", "-"}, 1)
        domain == AtLeast(email, One(email, local, {"@"}), Letters \cup Digits \cup {".", "-"}, 1)
        tld == AtLeast(email, One(email, domain, {"."}), Letters, 2)
    IN email # "" /\ Len(email) + 1 \in tld

(***************************************************************************)
(* DataCleaner.clean_url.  urljoin is modelled for a base that is an       *)
(* origin and a reference that has a scheme other than the base's, is an   *)
(* absolute path, a plain relative path, a query or a fragment, without    *)
(* dot segments.                                                           *)
(***************************************************************************)
StartsWith(s, prefix) == Len(s) >= Len(prefix) /\ SubSeq(s, 1, Len(prefix)) = prefix

\* the position of the ':' that ends the scheme of url, 0 when it has none
\* (urlsplit: a letter, then letters, digits, '+', '-' and '.')
SchemeColon(url, colon) ==
    IF colon > 1 /\ Ch(url, 1) \in Letters /\ Ch(url, colon) = ":" THEN colon ELSE 0

SchemeEnd(url) == SchemeColon(url, RunEnd(url, 1, Letters \cup Digits \cup {"+", "-", "."}))

\* the end of the netloc that starts at position i: before '/', '?' or '#'
RECURSIVE NetlocEnd(_, _)
NetlocEnd(rest, i) ==
    IF i > Len(rest) \/ Ch(rest, i) \in {"/", "?", "#"} THEN i ELSE NetlocEnd(rest, i + 1)

\* urlsplit: the netloc follows '//' and ends before '/', '?' or '#'
NetlocOf(rest) == IF StartsWith(rest, "//") THEN SubSeq(rest, 3, NetlocEnd(rest, 3) - 1) ELSE ""

Netloc(url) == NetlocOf(SubSeq(url, SchemeEnd(url) + 1, Len(url)))

OneBracket(netloc) == IsSubstring("[", netloc) # IsSubstring("]", netloc)

\* urlsplit raises ValueError('Invalid IPv6 URL') for a netloc with one bracket
UrlJoinRaises(url) == OneBracket(Netloc(url))

\* the end of the path that starts at position i: before '?' or '#'
RECURSIVE PathEnd(_, _)
PathEnd(url, i) ==
    IF i > Len(url) \/ Ch(url, i) \in {"?", "#"} THEN i ELSE PathEnd(url, i + 1)

\* urljoin drops the empty segments inside a relative path
RECURSIVE CollapseSlashes(_)
CollapseSlashes(path) ==
    IF Len(path) < 2 THEN path
    ELSE CollapseSlashes(SubSeq(path, 1, Len(path) - 1))
         \o (IF Ch(path, Len(path)) = "/" /\ Ch(path, Len(path) - 1) = "/"
             THEN ""
             ELSE CharAt(path, Len(path)))

\* a relative reference whose path ends before position end, as urljoin
\* appends it to an origin
RelativeReference(url, end) ==
    CollapseSlashes(SubSeq(url, 1, end - 1)) \o SubSeq(url, end, Len(url))

\* urllib.parse.urljoin(base, url)
UrlJoin(base, url) ==
    IF url = "" THEN base
    ELSE IF SchemeEnd(url) > 0 THEN url
    ELSE IF Ch(url, 1) \in {"/", "?", "#"} THEN base \o url
    ELSE base \o "/" \o RelativeReference(url, PathEnd(url, 1))

IsAbsoluteUrl(url) ==
    StartsWith(url, "http://") \/ StartsWith(url, "https://") \/ StartsWith(url, "//")

\* line 75 raises what urljoin raises
ResolveRaises(url) == ~IsAbsoluteUrl(url) /\ UrlJoinRaises(url)

CleanUrlRaises(url) == url # "" /\ ResolveRaises(Strip(url))

\* lines 74-75
Resolve(url, base_url) == IF IsAbsoluteUrl(url) THEN url ELSE UrlJoin(base_url, url)

\* lines 78-79
WithSchemeMut(url) == url

WithScheme(url) == IF StartsWith(url, "//") THEN "https:" \o url ELSE url

\* lines 65-81
clean_url(url, base_url) ==
    IF url = "" THEN "" ELSE WithScheme(Resolve(Strip(url), base_url))

(***************************************************************************)
(* The clean_url specification: a url of up to MaxUrlPieces pieces is      *)
(* cleaned against one of two origins.  A call that raises leaves          *)
(* pc = "raised".                                                          *)
(***************************************************************************)
MaxUrlPieces == 2

UrlPieces ==
    {" ", "/", "/a/b", "//cdn.x.com/i.png", "https://y.com/p", "http://", "a", "x://[abc",
     "#t", "mailto:m"}

Origins == {"https://x.com", "http://x"}

InitUrl ==
    /\ pc = "url"
    /\ \E pieces \in SeqsUpTo(UrlPieces, MaxUrlPieces) : given_url = JoinPieces(pieces)
    /\ given_base \in Origins
    /\ cleaned_url = ""
    /\ TextIdle
    /\ IntentIdle
    /\ DocIdle
    /\ PhoneIdle
    /\ ScrapeIdle

CleanUrl ==
    /\ pc = "url"
    /\ IF CleanUrlRaises(given_url)
       THEN pc' = "raised" /\ UNCHANGED cleaned_url
       ELSE pc' = "url_cleaned" /\ cleaned_url' = clean_url(given_url, given_base)
    /\ UNCHANGED <<given_url, given_base, textVars, intentVars, docVars, phoneVars, scrapeVars>>

NextUrl == CleanUrl

SpecUrl == InitUrl /\ [][NextUrl]_vars

Heading(tag, txt) == [tag |-> tag, text |-> txt, id |-> "", class |-> ""]
Block(tag, class, txt) == [tag |-> tag, class |-> class, text |-> txt]
Meta(name, content) ==
    [name |-> name, property |-> Absent, content |-> content, http_equiv |-> Absent]
Image(src, data_src, alt) ==
    [src |-> src, data_src |-> data_src, data_lazy_src |-> Absent, alt |-> alt, title |-> Absent]
Link(href, txt) == [href |-> href, text |-> txt, title |-> Absent]
Video(src, poster) == [src |-> src, poster |-> poster]
IFrame(src, title) == [src |-> src, title |-> title]

\* soup.get_text()
PageText(doc) == Join("\n", [k \in 1..Len(doc.blocks) |-> doc.blocks[k].text])

\* soup.find('meta', attrs={'name': 'description'}): its index in metas, 0 for None
MetaDescriptionIndex(doc) == FirstIndex(doc.metas, LAMBDA m : m.name = "description")

\* meta_desc and meta_desc.get('content')
HasMetaDescription(doc) ==
    /\ MetaDescriptionIndex(doc) > 0
    /\ GetAttr(doc.metas[MetaDescriptionIndex(doc)], "content", "") # ""

\* position: idx + 1 for the idx of enumerate, which counts from 0
PositionOf(idx) == idx + 1

(***************************************************************************)
(* WebScraper._extract_all_titles                                          *)
(***************************************************************************)
HeadingTags == <<"h1", "h2", "h3", "h4", "h5", "h6">>

\* lines 414-423: the inner loop for one tag
TitleRecord(tag, idx, element, txt) ==
    IF txt # ""
    THEN <<[level |-> Upper(tag), text |-> txt, position |-> PositionOf(idx),
            id |-> element.id, class |-> element.class]>>
    ELSE <<>>

TitlesOf(tag, elements) ==
    Concat([k \in 1..Len(elements) |->
               TitleRecord(tag, k - 1, elements[k], clean_text(elements[k].text))])

TitlesOfTag(doc, tag) == TitlesOf(tag, SelectSeq(doc.headings, LAMBDA h : h.tag = tag))

\* lines 410-424
extract_all_titles(doc) ==
    Concat([t \in 1..Len(HeadingTags) |-> TitlesOfTag(doc, HeadingTags[t])])

(***************************************************************************)
(* WebScraper._extract_all_descriptions                                    *)
(***************************************************************************)
\* lines 431-438
MetaDescriptionRecord(content) ==
    <<[type |-> "Meta Description", text |-> clean_text(content),
       length |-> Len(content), position |-> 0]>>

MetaDescriptionRecords(doc) ==
    IF HasMetaDescription(doc)
    THEN MetaDescriptionRecord(doc.metas[MetaDescriptionIndex(doc)].content)
    ELSE <<>>

\* lines 441-449
ParagraphRecord(idx, txt) ==
    IF txt # ""
    THEN <<[type |-> "Paragraph", text |-> txt, length |-> Len(txt),
            position |-> PositionOf(idx)]>>
    ELSE <<>>

ParagraphsOf(paragraphs) ==
    Concat([k \in 1..Len(paragraphs) |-> ParagraphRecord(k - 1, clean_text(paragraphs[k].text))])

ParagraphRecords(doc) == ParagraphsOf(SelectSeq(doc.blocks, LAMBDA b : b.tag = "p"))

\* lines 426-451
extract_all_descriptions(doc) == MetaDescriptionRecords(doc) \o ParagraphRecords(doc)

(***************************************************************************)
(* WebScraper._extract_all_images                                          *)
(***************************************************************************)
\* line 458: src or data-src or data-lazy-src
ImageSource(img) ==
    IF GetAttr(img, "src", "") # "" THEN img.src
    ELSE IF GetAttr(img, "data_src", "") # "" THEN img.data_src
    ELSE GetAttr(img, "data_lazy_src", "")

\* lines 453-471
ImageRecord(idx, img, src) ==
    IF src # ""
    THEN <<[position |-> PositionOf(idx), url |-> clean_url(src, BaseUrl),
            alt |-> clean_text(GetAttr(img, "alt", "")),
            title |-> clean_text(GetAttr(img, "title", ""))]>>
    ELSE <<>>

extract_all_images(doc) ==
    Concat([k \in 1..Len(doc.images) |->
               ImageRecord(k - 1, doc.images[k], ImageSource(doc.images[k]))])

\* line 460 raises
ImagesRaise(doc) == \E k \in 1..Len(doc.images) : CleanUrlRaises(ImageSource(doc.images[k]))

(***************************************************************************)
(* WebScraper._extract_all_links                                           *)
(***************************************************************************)
\* lines 473-492; soup.find_all('a', href=True) leaves out the a without href
LinkRecord(idx, link, full_url) ==
    [position |-> PositionOf(idx), url |-> full_url, text |-> clean_text(link.text),
     title |-> clean_text(GetAttr(link, "title", "")),
     is_external |-> ~IsSubstring(BaseUrl, full_url)]

LinksOf(anchors) ==
    [k \in 1..Len(anchors) |-> LinkRecord(k - 1, anchors[k], clean_url(anchors[k].href, BaseUrl))]

extract_all_links(doc) == LinksOf(SelectSeq(doc.links, LAMBDA a : a.href # Absent))

\* line 479 raises
LinksRaise(doc) ==
    \E k \in 1..Len(doc.links) : doc.links[k].href # Absent /\ CleanUrlRaises(doc.links[k].href)

(***************************************************************************)
(* WebScraper._extract_all_meta                                            *)
(***************************************************************************)
\* lines 817-831
extract_all_meta(doc) ==
    [k \in 1..Len(doc.metas) |->
        [position |-> PositionOf(k - 1),
         name |-> GetAttr(doc.metas[k], "name", ""),
         property |-> GetAttr(doc.metas[k], "property", ""),
         content |-> clean_text(GetAttr(doc.metas[k], "content", "")),
         http_equiv |-> GetAttr(doc.metas[k], "http_equiv", "")]]

(***************************************************************************)
(* WebScraper._extract_all_videos                                          *)
(***************************************************************************)
VideoPlatforms == {"youtube", "vimeo", "dailymotion", "video"}

\* line 608
IsVideoFrame(iframe) ==
    \E platform \in VideoPlatforms : IsSubstring(platform, Lower(GetAttr(iframe, "src", "")))

\* lines 595-603
VideoRecords(doc) ==
    [k \in 1..Len(doc.videos) |->
        [position |-> PositionOf(k - 1), type |-> "video",
         src |-> clean_url(GetAttr(doc.videos[k], "src", ""), BaseUrl),
         poster |-> clean_url(GetAttr(doc.videos[k], "poster", ""), BaseUrl)]]

\* lines 606-616: 'position': len(videos) + 1
RECURSIVE AppendFrames(_, _, _)
AppendFrames(videos, iframes, k) ==
    IF k > Len(iframes) THEN videos
    ELSE IF IsVideoFrame(iframes[k])
    THEN AppendFrames(Append(videos,
                             [position |-> Len(videos) + 1, type |-> "iframe",
                              src |-> clean_url(GetAttr(iframes[k], "src", ""), BaseUrl),
                              title |-> clean_text(GetAttr(iframes[k], "title", ""))]),
                      iframes, k + 1)
    ELSE AppendFrames(videos, iframes, k + 1)

\* lines 590-618
extract_all_videos(doc) == AppendFrames(VideoRecords(doc), doc.iframes, 1)

\* lines 599, 600 and 612 raise
VideosRaise(doc) ==
    \/ \E k \in 1..Len(doc.videos) :
          \/ CleanUrlRaises(GetAttr(doc.videos[k], "src", ""))
          \/ CleanUrlRaises(GetAttr(doc.videos[k], "poster", ""))
    \/ \E k \in 1..Len(doc.iframes) :
          IsVideoFrame(doc.iframes[k]) /\ CleanUrlRaises(doc.iframes[k].src)

(***************************************************************************)
(* WebScraper._extract_all_contact_info.  list(set(matches)) holds every   *)
(* distinct match once; its order follows the string hashes, which the     *)
(* interpreter draws anew for every process (hash randomisation), so a     *)
(* call sees one of the orderings of the set.                              *)
(***************************************************************************)
Orderings(S) == {q \in [1..Cardinality(S) -> S] : Range(q) = S}

\* set(matcher.extract_pattern(page_text, pattern_type))
MatchSet(doc, pattern_type) == Range(extract_pattern(PageText(doc), pattern_type))

\* lines 541-557, for the orders email_list and phone_list of the two sets
extract_all_contact_info(email_list, phone_list) ==
    LET emails == SelectSeq(email_list, validate_email)
        phones == [k \in 1..Len(phone_list) |-> standardize_phone(phone_list[k])]
    IN [emails |-> emails, phones |-> phones, total_contacts |-> Len(emails) + Len(phones)]

(***************************************************************************)
(* WebScraper._extract_all_prices                                          *)
(***************************************************************************)
\* line 574: the length a context is cut to
ContextLength == 150

\* str[:n]
Prefix(s, n) == IF Len(s) > n THEN SubSeq(s, 1, n) ELSE s

\* lines 565-566: class_=re.compile(r'price|cost|amount', re.I)
IsPriceElement(block) ==
    /\ block.tag \in {"span", "div", "p", "strong", "b"}
    /\ \E word \in {"price", "cost", "amount"} : IsSubstring(word, Lower(block.class))

\* lines 568-575
PricesIn(found_prices, context) ==
    [j \in 1..Len(found_prices) |-> [price |-> found_prices[j], context |-> context]]

PricesOfText(txt) == PricesIn(extract_pattern(txt, "price"), Prefix(txt, ContextLength))

PricesOf(price_elements) ==
    Concat([k \in 1..Len(price_elements) |-> PricesOfText(clean_text(price_elements[k].text))])

ElementPrices(doc) == PricesOf(SelectSeq(doc.blocks, IsPriceElement))

\* lines 581-586
RECURSIVE AppendGeneralMut(_, _, _)
AppendGeneralMut(prices, general_prices, k) ==
    IF k > Len(general_prices) THEN prices
    ELSE AppendGeneralMut(Append(prices, [price |-> general_prices[k],
                                          context |-> "General page content"]),
                          general_prices, k + 1)

RECURSIVE AppendGeneral(_, _, _)
AppendGeneral(prices, general_prices, k) ==
    IF k > Len(general_prices) THEN prices
    ELSE IF \E j \in 1..Len(prices) : prices[j].price = general_prices[k]
    THEN AppendGeneral(prices, general_prices, k + 1)
    ELSE AppendGeneral(Append(prices, [price |-> general_prices[k],
                                       context |-> "General page content"]),
                       general_prices, k + 1)

\* lines 559-588
extract_all_prices(doc) ==
    AppendGeneral(ElementPrices(doc), extract_pattern(PageText(doc), "price"), 1)

(***************************************************************************)
(* WebScraper.scrape_full                                                  *)
(***************************************************************************)
\* the order of the if statements of lines 374-402
Dispatch ==
    <<"titles", "descriptions", "images", "links", "tables", "contact", "prices", "videos",
      "forms", "meta">>

\* the key of results['data'] a category is stored under
DataKey(category) == IF category = "contact" THEN "contact_info" ELSE category

\* lines 370-374: 'all' in selected_features or category in selected_features
IsSelectedMut(features, category) == "all" \in features \/ category \in features

IsSelected(features, category) ==
    LET chosen == IF features = {} THEN {"all"} ELSE features
    IN "all" \in chosen \/ category \in chosen

\* the extractor of the category raises
ExtractorRaises(doc, category) ==
    CASE category = "images" -> ImagesRaise(doc)
      [] category = "links" -> LinksRaise(doc)
      [] category = "videos" -> VideosRaise(doc)
      [] OTHER -> FALSE

\* what the extractor of the category returns
ExtractorResult(doc, category, email_list, phone_list) ==
    CASE category = "titles" -> extract_all_titles(doc)
      [] category = "descriptions" -> extract_all_descriptions(doc)
      [] category = "images" -> extract_all_images(doc)
      [] category = "links" -> extract_all_links(doc)
      [] category = "tables" -> extract_all_tables(doc)
      [] category = "contact" -> extract_all_contact_info(email_list, phone_list)
      [] category = "prices" -> extract_all_prices(doc)
      [] category = "videos" -> extract_all_videos(doc)
      [] category = "forms" -> extract_all_forms(doc)
      [] category = "meta" -> extract_all_meta(doc)

\* lines 374-402 from the k-th if statement on: the data collected and
\* whether an extractor raised
RECURSIVE DispatchFromMut(_, _, _, _, _, _)
DispatchFromMut(doc, features, email_list, phone_list, data, k) ==
    IF k > Len(Dispatch) THEN [data |-> data, raised |-> FALSE]
    ELSE IF ~IsSelected(features, Dispatch[k])
    THEN DispatchFromMut(doc, features, email_list, phone_list, data, k + 1)
    ELSE IF ExtractorRaises(doc, Dispatch[k])
    THEN [data |-> NoFrames, raised |-> TRUE]
    ELSE DispatchFromMut(doc, features, email_list, phone_list,
                         Put(data, DataKey(Dispatch[k]),
                             ExtractorResult(doc, Dispatch[k], email_list, phone_list)),
                         k + 1)

RECURSIVE DispatchFrom(_, _, _, _, _, _)
DispatchFrom(doc, features, email_list, phone_list, data, k) ==
    IF k > Len(Dispatch) THEN [data |-> data, raised |-> FALSE]
    ELSE IF ~IsSelected(features, Dispatch[k])
    THEN DispatchFrom(doc, features, email_list, phone_list, data, k + 1)
    ELSE IF ExtractorRaises(doc, Dispatch[k])
    THEN [data |-> data, raised |-> TRUE]
    ELSE DispatchFrom(doc, features, email_list, phone_list,
                      Put(data, DataKey(Dispatch[k]),
                          ExtractorResult(doc, Dispatch[k], email_list, phone_list)),
                      k + 1)

\* lines 350-367: the metadata once title and description are read
ScrapedMetadata(doc, now) ==
    [url |-> BaseUrl, timestamp |-> now,
     title |-> IF doc.title # Absent THEN clean_text(doc.title) ELSE "No title",
     description |-> IF HasMetaDescription(doc)
                     THEN clean_text(doc.metas[MetaDescriptionIndex(doc)].content)
                     ELSE ""]

\* lines 404 and 406-408: the dict returned and the new errors list when the
\* dispatch ended as run says
Scraped(doc, now, errs, run) ==
    [results |-> [metadata |-> ScrapedMetadata(doc, now), data |-> run.data],
     errors |-> IF run.raised THEN Append(errs, "Scraping error: Invalid IPv6 URL") ELSE errs]

\* lines 350-358 and 406-408 when self.soup is None: line 362 raises
Unparsed(now, errs) ==
    [results |-> [metadata |-> [url |-> BaseUrl, timestamp |-> now, title |-> "",
                                description |-> ""],
                  data |-> NoFrames],
     errors |-> Append(errs, "Scraping error: 'NoneType' object has no attribute 'find'")]

\* lines 348-408: the dict returned and the new errors list; now is the
\* reading of the clock, errs the errors list before the call
scrape_full(doc, features, now, email_list, phone_list, errs) ==
    IF ~doc.parsed THEN Unparsed(now, errs)
    ELSE Scraped(doc, now, errs,
                 DispatchFrom(doc, features, email_list, phone_list, NoFrames, 1))

(***************************************************************************)
(* The calls of one extractor and of scrape_full on a parsed document.  An *)
(* extractor call that raises leaves pc = "raised".                        *)
(***************************************************************************)
PageInit(doc) ==
    /\ pc = "parsed"
    /\ soup = doc
    /\ all_tables = <<>>
    /\ forms = <<>>
    /\ data_frames = NoFrames
    /\ TextIdle
    /\ IntentIdle
    /\ PhoneIdle
    /\ UrlIdle
    /\ ScrapeIdle

ExtractAllTitles ==
    /\ pc = "parsed"
    /\ extracted' = extract_all_titles(soup)
    /\ pc' = "titles"
    /\ UNCHANGED <<selected_features, results, previous, errors,
                   docVars, textVars, intentVars, phoneVars, urlVars>>

ExtractAllDescriptions ==
    /\ pc = "parsed"
    /\ extracted' = extract_all_descriptions(soup)
    /\ pc' = "descriptions"
    /\ UNCHANGED <<selected_features, results, previous, errors,
                   docVars, textVars, intentVars, phoneVars, urlVars>>

ExtractAllImages ==
    /\ pc = "parsed"
    /\ IF ImagesRaise(soup)
       THEN pc' = "raised" /\ UNCHANGED extracted
       ELSE pc' = "images" /\ extracted' = extract_all_images(soup)
    /\ UNCHANGED <<selected_features, results, previous, errors,
                   docVars, textVars, intentVars, phoneVars, urlVars>>

ExtractAllLinks ==
    /\ pc = "parsed"
    /\ IF LinksRaise(soup)
       THEN pc' = "raised" /\ UNCHANGED extracted
       ELSE pc' = "links" /\ extracted' = extract_all_links(soup)
    /\ UNCHANGED <<selected_features, results, previous, errors,
                   docVars, textVars, intentVars, phoneVars, urlVars>>

ExtractAllMeta ==
    /\ pc = "parsed"
    /\ extracted' = extract_all_meta(soup)
    /\ pc' = "meta"
    /\ UNCHANGED <<selected_features, results, previous, errors,
                   docVars, textVars, intentVars, phoneVars, urlVars>>

ExtractAllContactInfo ==
    /\ pc = "parsed"
    /\ \E email_list \in Orderings(MatchSet(soup, "email")),
          phone_list \in Orderings(MatchSet(soup, "phone")) :
          extracted' = extract_all_contact_info(email_list, phone_list)
    /\ pc' = "contact"
    /\ UNCHANGED <<selected_features, results, previous, errors,
                   docVars, textVars, intentVars, phoneVars, urlVars>>

ExtractAllPrices ==
    /\ pc = "parsed"
    /\ extracted' = extract_all_prices(soup)
    /\ pc' = "prices"
    /\ UNCHANGED <<selected_features, results, previous, errors,
                   docVars, textVars, intentVars, phoneVars, urlVars>>

\* the orders list(set(...)) can have in a call of scrape_full, which builds
\* the set only when it runs the contact extractor
SetOrders(doc, features, pattern_type) ==
    IF doc.parsed /\ IsSelected(features, "contact")
    THEN Orderings(MatchSet(doc, pattern_type))
    ELSE {<<>>}

\* the readings of the clock
Timestamps == {"t0", "t1"}

\* the caller holds the dict returned, self.errors the new list
Returned(out) == results' = out.results /\ errors' = out.errors

\* one call of scrape_full; previous keeps what the call before returned
ScrapeFull ==
    /\ pc \in {"parsed", "scraped"}
    /\ \E now \in Timestamps,
          email_list \in SetOrders(soup, selected_features, "email"),
          phone_list \in SetOrders(soup, selected_features, "phone") :
          Returned(scrape_full(soup, selected_features, now, email_list, phone_list, errors))
    /\ previous' = results
    /\ pc' = IF pc = "parsed" THEN "scraped" ELSE "rescraped"
    /\ UNCHANGED <<selected_features, extracted, docVars, textVars, intentVars, phoneVars, urlVars>>

(***************************************************************************)
(* The titles specification: a document with up to MaxElements headings,   *)
(* up to MaxElements blocks and at most one meta description.              *)
(***************************************************************************)
MaxElements == 2

HeadingSamples ==
    {Heading("h1", "One"), Heading("h2", " Two "), Heading("h1", "Uno"), Heading("h3", " ")}

ParagraphSamples == {Block("p", "", "first"), Block("p", "", " "), Block("div", "", "box")}

DescriptionMetas ==
    {<<>>, <<Meta("description", " About ")>>, <<Meta("viewport", "w"), Meta("description", "")>>}

InitTitles ==
    \E headings \in SeqsUpTo(HeadingSamples, MaxElements),
       blocks \in SeqsUpTo(ParagraphSamples, MaxElements),
       metas \in DescriptionMetas :
        PageInit([EmptyDoc EXCEPT !.headings = headings, !.blocks = blocks, !.metas = metas])

NextTitles == ExtractAllTitles \/ ExtractAllDescriptions

SpecTitles == InitTitles /\ [][NextTitles]_vars

(***************************************************************************)
(* The records specification: a document with up to MaxElements images and *)
(* links, or with up to MaxElements meta tags, a table and a form.         *)
(***************************************************************************)
ImageSamples ==
    {Image("/a.png", Absent, "pic"), Image(Absent, Absent, "none"),
     Image("", "lazy.png", ""), Image("x://[abc", Absent, "")}

LinkSamples ==
    {Link("/a", "A"), Link("", ""), Link(Absent, "anchor"), Link("https://y.org/", " Y ")}

MetaSamples == {Meta("description", "About"), Meta(Absent, Absent), Meta("k", "")}

InitRecords ==
    \/ \E images \in SeqsUpTo(ImageSamples, MaxElements),
          links \in SeqsUpTo(LinkSamples, MaxElements) :
          PageInit([EmptyDoc EXCEPT !.images = images, !.links = links])
    \/ \E metas \in SeqsUpTo(MetaSamples, MaxElements),
          tables \in {<<>>} \cup {<<t>> : t \in TableSamples},
          fs \in {<<>>} \cup {<<f>> : f \in FormSamples} :
          PageInit([EmptyDoc EXCEPT !.metas = metas, !.tables = tables, !.forms = fs])

NextRecords ==
    ExtractAllImages \/ ExtractAllLinks \/ ExtractAllTables \/ ExtractAllForms \/ ExtractAllMeta

SpecRecords == InitRecords /\ [][NextRecords]_vars

(***************************************************************************)
(* The contact specification: a page text of up to MaxElements lines.      *)
(***************************************************************************)
ContactTexts ==
    {"555-123-4567", "call 555.123.4567", "a@b.com", "mail a@b.c|m", "A@b.com 12",
     "a@b.com; (555) 123-4567", "no contact", "c@d.org 12"}

InitContact ==
    \E lines \in SeqsUpTo(ContactTexts, MaxElements) :
        PageInit([EmptyDoc EXCEPT
                     !.blocks = [k \in 1..Len(lines) |-> Block("p", "", lines[k])]])

NextContact == ExtractAllContactInfo

SpecContact == InitContact /\ [][NextContact]_vars

(***************************************************************************)
(* The prices specification: a document with up to MaxElements blocks.     *)
(***************************************************************************)
RECURSIVE Repeat(_, _)
Repeat(s, n) == IF n = 0 THEN "" ELSE s \o Repeat(s, n - 1)

PriceSamples ==
    {Block("span", "price", "$5"), Block("p", "", "$5"), Block("div", "Cost", " was $  9 now $5"),
     Block("b", "", "20 USD"), Block("div", "amount-box", Repeat("lorem ", 30) \o "$1,000.50"),
     Block("span", "price", "free"), Block("span", "", "$"), Block("p", "total price", "7 eur")}

InitPrices ==
    \E blocks \in SeqsUpTo(PriceSamples, MaxElements) : PageInit([EmptyDoc EXCEPT !.blocks = blocks])

NextPrices == ExtractAllPrices

SpecPrices == InitPrices /\ [][NextPrices]_vars

(***************************************************************************)
(* The scrape specification: two calls of scrape_full on a sample page     *)
(* with up to MaxFeatures selected features.                               *)
(***************************************************************************)
MaxFeatures == 2

FullPage ==
    [EmptyDoc EXCEPT
        !.title = " Shop ",
        !.metas = <<Meta("description", "About")>>,
        !.headings = <<Heading("h2", "Two"), Heading("h1", "One")>>,
        !.blocks = <<Block("p", "", "a@b.com 555-123-4567"),
                     Block("span", "price", "$5 c@d.org"),
                     Block("p", "", "555.123.4567")>>,
        !.images = <<Image("/a.png", Absent, "pic")>>,
        !.links = <<Link("/a", "A")>>,
        !.videos = <<Video("v.mp4", Absent)>>,
        !.iframes = <<IFrame("https://youtube.com/e", "clip")>>,
        !.tables = <<<<Row("table", <<"h">>), Row("table", <<"a">>)>>>>,
        !.forms = <<FormElement("f", <<InText, Select>>)>>]

BadImagePage == [FullPage EXCEPT !.images = <<Image("x://[abc", Absent, "")>>]
BadLinkPage == [FullPage EXCEPT !.links = <<Link("x://[abc", "bad")>>]
BadVideoPage == [FullPage EXCEPT !.videos = <<Video("v.mp4", "x://[abc")>>]
NoSoup == [EmptyDoc EXCEPT !.parsed = FALSE]

PageSamples == {FullPage, BadImagePage, BadLinkPage, BadVideoPage, NoSoup, EmptyDoc}

FeatureNames == Range(Dispatch) \cup {"all", "media"}

InitScrape ==
    \E doc \in PageSamples,
       features \in {f \in SUBSET FeatureNames : Cardinality(f) <= MaxFeatures} :
        /\ pc = "parsed"
        /\ soup = doc
        /\ all_tables = <<>>
        /\ forms = <<>>
        /\ data_frames = NoFrames
        /\ selected_features = features
        /\ results = [n \in {} |-> <<>>]
        /\ previous = [n \in {} |-> <<>>]
        /\ errors = <<>>
        /\ extracted = <<>>
        /\ TextIdle
        /\ IntentIdle
        /\ PhoneIdle
        /\ UrlIdle

NextScrape == ScrapeFull

SpecScrape == InitScrape /\ [][NextScrape]_vars

(***************************************************************************)
(* The intent-to-scrape specification: match_intent classifies a token     *)
(* list of up to MaxTokens tokens, and the list it returns is passed to    *)
(* scrape_full as selected_features on a parsed page.                      *)
(***************************************************************************)
InitMatched ==
    /\ pc = "query"
    /\ user_query \in SeqsUpTo(Vocabulary, MaxTokens)
    /\ scores = <<>>
    /\ matched_types = <<>>
    /\ soup = FullPage
    /\ all_tables = <<>>
    /\ forms = <<>>
    /\ data_frames = NoFrames
    /\ TextIdle
    /\ PhoneIdle
    /\ UrlIdle
    /\ ScrapeIdle

\* scrape_full(matched_types)
ScrapeMatched ==
    /\ pc = "matched"
    /\ selected_features' = Range(matched_types)
    /\ \E now \in Timestamps,
          email_list \in SetOrders(soup, Range(matched_types), "email"),
          phone_list \in SetOrders(soup, Range(matched_types), "phone") :
          Returned(scrape_full(soup, Range(matched_types), now, email_list, phone_list, errors))
    /\ previous' = results
    /\ pc' = "scraped"
    /\ UNCHANGED <<extracted, docVars, textVars, intentVars, phoneVars, urlVars>>

NextMatched == MatchIntent \/ ScrapeMatched

SpecMatched == InitMatched /\ [][NextMatched]_vars

(***************************************************************************)
(* Properties of the extractors.                                           *)
(***************************************************************************)
PositionsIncrease(records) ==
    \A k \in 1..Len(records) :
        /\ records[k].position >= 1
        /\ k > 1 => records[k - 1].position < records[k].position

\* the cleaned texts of the elements that have one, in document order
TextsInDocumentOrder(elements) ==
    SelectSeq([k \in 1..Len(elements) |-> clean_text(elements[k].text)], LAMBDA t : t # "")

\* C15: the records of the titles list and of the descriptions list are in the
\* document order of their elements, and their positions are at least 1 and
\* strictly increasing along the list.
TitlesAndDescriptionsInOrder ==
    /\ pc = "titles" =>
          /\ [k \in 1..Len(extracted) |-> extracted[k].text] = TextsInDocumentOrder(soup.headings)
          /\ PositionsIncrease(extracted)
    /\ pc = "descriptions" => PositionsIncrease(extracted)

\* C16: the images, links, tables, forms and meta extractors return as many
\* records as the document has img, a with href, table, form and meta
\* elements.
RecordsNeverDropped ==
    /\ pc = "images" => Len(extracted) = Len(soup.images)
    /\ pc = "links" =>
          Len(extracted) = Cardinality({k \in 1..Len(soup.links) : soup.links[k].href # Absent})
    /\ pc = "meta" => Len(extracted) = Len(soup.metas)
    /\ pc = "tables" => Len(all_tables) = Len(soup.tables)
    /\ pc = "forms" => Len(forms) = Len(soup.forms)

NoValueTwice(list) == \A j, k \in 1..Len(list) : j # k => list[j] # list[k]

\* C17: in the contact record no value occurs twice in the emails list and no
\* value occurs twice in the phones list.
ContactValuesOnce ==
    pc = "contact" => NoValueTwice(extracted.emails) /\ NoValueTwice(extracted.phones)

\* C18: every price matched in the page text is in a record of the prices
\* list, a record with the context 'General page content' shares its price
\* with no other record, and no context is longer than 150 characters.
PricesCoverPageOnce ==
    pc = "prices" =>
        /\ \A price \in Range(extract_pattern(PageText(soup), "price")) :
              \E k \in 1..Len(extracted) : extracted[k].price = price
        /\ \A k \in 1..Len(extracted) :
              extracted[k].context = "General page content" =>
                  \A j \in 1..Len(extracted) : j # k => extracted[j].price # extracted[k].price
        /\ \A k \in 1..Len(extracted) : Len(extracted[k].context) <= 150

\* The prices of a page with an element text of more than 150 characters, a
\* price found in an element and again in the page text, and a price found in
\* the page text only have been extracted.
PricesCoverPageCase ==
    /\ pc = "prices"
    /\ \E k \in 1..Len(extracted) :
          /\ Len(extracted[k].context) = 150
          /\ extracted[k].price \in Range(extract_pattern(PageText(soup), "price"))
    /\ \E k \in 1..Len(extracted) : extracted[k].context = "General page content"

(***************************************************************************)
(* Properties of scrape_full.                                              *)
(***************************************************************************)
\* the selected categories whose extractor raises on the document
RaisingSelected(doc, features) ==
    {c \in Range(Dispatch) : IsSelected(features, c) /\ ExtractorRaises(doc, c)}

\* C12: when the extractor of one selected category raises, the data returned
\* has an entry for every other selected category, those after it in the
\* dispatch order too.
OtherCategoriesReturned ==
    pc = "scraped" /\ soup.parsed /\ Cardinality(RaisingSelected(soup, selected_features)) = 1 =>
        \A c \in Range(Dispatch) \ RaisingSelected(soup, selected_features) :
            IsSelected(selected_features, c) => DataKey(c) \in DOMAIN results.data

\* the places in the dispatch order of the selected categories that are run
\* to the end: those before the first one that raises
Finished(doc, features) ==
    {k \in 1..Len(Dispatch) :
        /\ doc.parsed
        /\ IsSelected(features, Dispatch[k])
        /\ \A j \in 1..k : ~(IsSelected(features, Dispatch[j]) /\ ExtractorRaises(doc, Dispatch[j]))}

\* C13: a call of scrape_full in which reading the metadata or an extractor
\* raises appends exactly one message to errors and returns the metadata and
\* the lists of the categories finished before; a call in which nothing
\* raises leaves errors unchanged.
FailureRecordedOnce ==
    pc \in {"scraped", "rescraped"} =>
        LET calls == IF pc = "scraped" THEN 1 ELSE 2
            fails == ~soup.parsed \/ RaisingSelected(soup, selected_features) # {}
        IN /\ Len(errors) = IF fails THEN calls ELSE 0
           /\ DOMAIN results.metadata = {"url", "timestamp", "title", "description"}
           /\ DOMAIN results.data
                 = {DataKey(Dispatch[k]) : k \in Finished(soup, selected_features)}
           /\ \A k \in Finished(soup, selected_features) :
                 Dispatch[k] # "contact" =>
                     results.data[DataKey(Dispatch[k])]
                         = ExtractorResult(soup, Dispatch[k], <<>>, <<>>)

\* A call in which an extractor raised after the titles were extracted has
\* returned.
FailureRecordedCase ==
    /\ pc = "scraped"
    /\ soup.parsed
    /\ Len(errors) = 1
    /\ "titles" \in DOMAIN results.data
    /\ results.data.titles # <<>>

\* the ten categories of lines 374-402 by the names a selection uses
Categories ==
    {"titles", "descriptions", "images", "links", "tables", "contact", "prices", "videos",
     "forms", "meta"}

\* C24: when nothing raises, the data scrape_full returns has an entry for a
\* category exactly when the selection is empty, holds 'all' or holds the
\* category (contact under the key contact_info); other names in the
\* selection add nothing.
SelectedCategoriesPresent ==
    pc \in {"scraped", "rescraped"} /\ errors = <<>> =>
        /\ \A c \in Categories \ {"contact"} :
              c \in DOMAIN results.data
                  <=> (selected_features = {} \/ "all" \in selected_features
                       \/ c \in selected_features)
        /\ "contact_info" \in DOMAIN results.data
              <=> (selected_features = {} \/ "all" \in selected_features
                   \/ "contact" \in selected_features)
        /\ DOMAIN results.data \subseteq (Categories \ {"contact"}) \cup {"contact_info"}

\* A call with the selection of contact and a name that is no category has
\* returned, nothing having raised, with the entry contact_info alone.
SelectedCategoriesCase ==
    /\ pc = "scraped"
    /\ errors = <<>>
    /\ selected_features = {"contact", "media"}
    /\ DOMAIN results.data = {"contact_info"}

\* C14: two calls of scrape_full on the same document with the same selected
\* features return the same data, the emails and phones lists in the same
\* order.
TwoRunsSameData ==
    pc = "rescraped" => results.data = previous.data

\* C25: every name match_intent returns is one scrape_full recognises (one of
\* the ten categories or 'all'), and scrape_full called with the list
\* match_intent returned runs at least one extractor.
MatchedTypesRunAnExtractor ==
    /\ pc \in {"matched", "scraped"} =>
          \A k \in 1..Len(matched_types) : matched_types[k] \in Categories \cup {"all"}
    /\ pc = "scraped" => DOMAIN results.data # {}

\* scrape_full has been called with the list match_intent returned for the
\* token price and has returned, nothing having raised, without any entry.
MatchedPriceRunsNothingCase ==
    /\ pc = "scraped"
    /\ user_query = <<"price">>
    /\ matched_types = <<"price">>
    /\ errors = <<>>
    /\ DOMAIN results.data = {}

=============================================================================
